---------------------------- MODULE Spec2Model ----------------------------
(***************************************************************************)
(* A model of the fesca three-party secret-sharing engine:                 *)
(*   - the data owner's bit-level replicated sharing (data_owner/sharing)  *)
(*     and the byte-level SecretShare::share_secret (helpers);             *)
(*   - the correlated-randomness generators (computing_node);              *)
(*   - the Boolean gates on (x, a) shares and the circuit evaluator        *)
(*     (computing_node/boolean_circuits);                                  *)
(*   - the data analyst's query planner (from_query) and its compiler of   *)
(*     a logical plan to a Boolean circuit (compile_to_circuit).           *)
(* The specifications share the variables: SpecShare, SpecCR, SpecGate,    *)
(* Spec and SpecWires (the circuit evaluator) and SpecPlan (the analyst).  *)
(* A specification leaves the other groups of variables at their idle      *)
(* value.                                                                  *)
(***************************************************************************)
EXTENDS Integers, Sequences, FiniteSets, TLC

VARIABLES
    \* ---- data owner / helpers: share generation
    bits,           \* the bit block handed to share_bit_string
    bitsShared,     \* share_bit_string has returned
    shares,         \* its result: <<SharedBitString, SharedBitString, SharedBitString>>
    secret,         \* the byte block handed to SecretShare::share_secret
    bytesShared,    \* share_secret has returned
    byteShares,     \* its result: [SecretShare::Boolean; 3]
    \* ---- correlated randomness
    prfTable,       \* the bit prf(key, id) returns, for every key and id
    keys,           \* ComputationalCorrelatedRandomness {k1, k2, k3}
    keysInit,       \* init_computational_correlated_randomness has run
    triple,         \* the last triple a generator returned
    tripleBy,       \* the generator that returned it ("none" before the first)
    \* ---- one gate, evaluated by each of the three parties
    gx, gy,         \* the cleartext inputs x and y
    gkind,          \* the gate the parties evaluate: a GateType
    gpc,            \* "input" -> "shared" (shares dealt) -> "ready" (triple dealt)
    sx, sy,         \* CompleteShares of x and of y (generate_shares)
    gcr,            \* the CorrelatedRandomnessBoolean handed to the gate
    gout,           \* gout[p]: the share party p's gate call returned
    gdone,          \* the parties whose gate call has returned
    recon,          \* the last reconstruct_shares call: its arguments and result
    \* ---- evaluate_circuit, run by each of the three parties
    circuit,        \* the BooleanCircuit
    clear,          \* the cleartext value of every input wire
    ephase,         \* "input" -> "shared" (inputs shared) -> "ready" (triples supplied)
    input_shares,   \* input_shares[p]: party p's share of every input wire
    correlated_randomness,  \* the slice of triples handed to evaluate_circuit
    epc,            \* epc[p]: "ready", "done" or "panicked": party p's call
    all_values,     \* all_values[p]: party p's wire arena when its call ended
    outputs,        \* outputs[p]: the vector party p's call returned
    used,           \* used[p][k]: the index into correlated_randomness of gate k-1
    state,          \* state[p]: party p's MPCProtocolState
    sent,           \* sent[p]: the bits party p's call has sent to its ring successor
    \* ---- data analyst: SQL query -> LogicalPlan -> Circuit
    query,          \* the parsed SELECT: [selection, projection]
    num_rows,       \* rows of the table handed to compile_to_circuit
    num_columns,    \* columns of that table
    plan,           \* from_query's Result<LogicalPlan>
    compiled,       \* the Circuit compile_to_circuit returned
    cpc,            \* "query" -> "planned" | "rejected" -> "compiled" | "panicked"
    \* ---- computing_node/node.rs: three Nodes multiplying two shared values
    na, nb,         \* the two values handed to generate_secret_share
    npc,            \* "start" -> "saved" -> "received" -> "calculated" -> "revealed"
    saved_shares,   \* saved_shares[i]: node i's HashMap<u64, SecretShare>
    received_shares,    \* received_shares[i]: node i's HashMap<u64, SecretShareSend>
    calculated_shares,  \* calculated_shares[i]: node i's HashMap<u64, SecretShare>
    revealed,       \* revealed[i]: what node i's send_masked_share(id1 ^ id2) gave
    \* ---- generate_batch_correlated_randomness
    batch_count,    \* its count argument
    batch,          \* the Vec<CorrelatedRandomnessBoolean> it returned
    batch_done,     \* it has returned
    \* ---- data owner: run_data_owner
    schema,         \* schema.columns: the type of every column
    records,        \* the loaded records: a sequence of rows of field values
    opc,            \* "start" -> "encoding" -> "returned" | "exited" | "panicked"
    binary_party,   \* binary_party[p]: the rows of BinaryPartyData p-1
    requests,       \* the parties whose send_table_shares request was issued
    send_result,    \* "none", or what send_binary_table_shares returned
    run_result,     \* "none", or what run_data_owner returned
    exit_code,      \* the process exit code, -1 while it runs
    \* ---- computing node: two send_table_shares handlers on one store
    store_reqs,     \* store_reqs[h]: the request handler h serves
    hpc,            \* hpc[h]: "received" -> "writing" -> "schema" -> "done"
    woff,           \* woff[h]: the offset of handler h's handle on the data file
    data_file,      \* party<id>_data.bin: the cells it holds
    schema_file,    \* schema.json: the schema it holds, "none" before the first write
    \* ---- simulate_paper_protocol
    sim_pc,         \* "p1" -> "p2" -> "p3" -> "verify" -> "returned"
    p_state,        \* p_state[p]: the PartyState party_p_generate returned
    sim_result,     \* the CorrelatedRandomnessResult
    verification,   \* alpha ^ beta ^ gamma as simulate_paper_protocol computes it
    \* ---- the three gRPC servers of the rho exchange and their client
    rhos,           \* rhos[p]: the bit rho_p the client drew for party p
    client_pc,      \* run_grpc_protocol: "rho1" -> "rho2" -> "rho3" -> "values" -> "verify"
    servers,        \* servers[p]: the GrpcPartyState of party p's server
    rho_set_by      \* rho_set_by[p]: the send_rho method that last changed servers[p], 0 if none

shareVars == <<bits, bitsShared, shares, secret, bytesShared, byteShares>>
crVars    == <<prfTable, keys, keysInit, triple, tripleBy>>
gateVars  == <<gx, gy, gkind, gpc, sx, sy, gcr, gout, gdone, recon>>
evalVars  == <<circuit, clear, ephase, input_shares, correlated_randomness,
               epc, all_values, outputs, used, state, sent>>
planVars  == <<query, num_rows, num_columns, plan, compiled, cpc>>
nodeVars  == <<na, nb, npc, saved_shares, received_shares, calculated_shares, revealed>>
batchVars == <<batch_count, batch, batch_done>>
ownerVars == <<schema, records, opc, binary_party, requests, send_result,
               run_result, exit_code>>
storeVars == <<store_reqs, hpc, woff, data_file, schema_file>>
simVars   == <<sim_pc, p_state, sim_result, verification>>
rhoVars   == <<rhos, client_pc, servers, rho_set_by>>
extVars   == <<nodeVars, batchVars, ownerVars, storeVars, simVars, rhoVars>>
vars      == <<shareVars, crVars, gateVars, evalVars, planVars, extVars>>

\* ------------------------------------------------------------------ bounds
MaxBits      == 3      \* longest bit block shared
MaxSecretLen == 2      \* longest byte block shared
NumKeys      == 2      \* distinct PRF keys a party may draw
NumIds       == 2      \* distinct gate ids handed to the PRF
NumInputs    == 2      \* input wires of a circuit
MaxGates     == 2      \* gates of a circuit
MaxTriples   == 1      \* triples handed to evaluate_circuit
MaxRows      == 2      \* rows of the analyst's table
NumColumns   == 2      \* columns of the analyst's table
MaxLiteral   == 2      \* largest integer literal of a query
MaxWidth     == 2      \* widest column of a table schema, in bits
WordBits     == 1      \* bits kept of a u64 word of the node's shares
MaxFields    == 2      \* columns of the data owner's table
MaxRecords   == 1      \* records of the data owner's table
MaxChars     == 1      \* max_chars of the String columns
MaxStoredRows == 1     \* rows of a request to the share store

\* ------------------------------------------------------------ bit helpers
\* Rust's ^ on bool
Xor(p, q) == p # q

Xor3(p, q, r) == Xor(Xor(p, q), r)

\* u8 width
ByteBits == 8

RECURSIVE BitwiseXor(_, _, _)
\* Rust's ^ on an n-bit unsigned integer
BitwiseXor(m, k, n) ==
    IF n = 0 THEN 0
    ELSE (((m % 2) + (k % 2)) % 2) + (2 * BitwiseXor(m \div 2, k \div 2, n - 1))

ByteXor(m, k) == BitwiseXor(m, k, ByteBits)

\* The three parties, and the ring P1 -> P2 -> P3 -> P1
Parties == 1..3
NextParty(p) == (p % 3) + 1
PrevParty(p) == ((p + 1) % 3) + 1

\* All sequences over S of length 0..n
SeqsUpTo(S, n) == UNION {[1..k -> S] : k \in 0..n}

\* ----------------------------------------- data_owner/src/sharing.rs
\* A mutation of replicate: the third share forgets the secret bit.
replicate_noSecret(v, a, b) ==
    LET c == Xor(a, b)
    IN  << [share_a |-> a, share_b |-> b],
           [share_a |-> b, share_b |-> c],
           [share_a |-> c, share_b |-> a] >>

\* A mutation of replicate: party 2 and party 3 get each other's pairs.
replicate_swapped(v, a, b) ==
    LET c == Xor3(v, a, b)
    IN  << [share_a |-> a, share_b |-> b],
           [share_a |-> c, share_b |-> a],
           [share_a |-> b, share_b |-> c] >>

\* A mutation of replicate: the third share forgets the first draw.
replicate_leaky(v, a, b) ==
    LET c == Xor(v, b)
    IN  << [share_a |-> a, share_b |-> b],
           [share_a |-> b, share_b |-> c],
           [share_a |-> c, share_b |-> a] >>

\* <bool as ReplicatedShareable>::replicate; a, b are the two rng draws
replicate(v, a, b) ==
    LET c == Xor3(v, a, b)
    IN  << [share_a |-> a, share_b |-> b],
           [share_a |-> b, share_b |-> c],
           [share_a |-> c, share_b |-> a] >>

\* share_bit_string; rnd[i] = <<a, b>> are the draws made for bit i
share_bit_string(bs, rnd) ==
    [p \in Parties |->
        [bits |-> [i \in 1..Len(bs) |-> replicate(bs[i], rnd[i][1], rnd[i][2])[p]]]]

\* tests.rs reconstruct_bit_string: XOR of the three first components
reconstruct_bit_string(share0, share1, share2) ==
    [i \in 1..Len(share0.bits) |->
        Xor3(share0.bits[i].share_a, share1.bits[i].share_a, share2.bits[i].share_a)]

\* ----------------------------------------- helpers/src/shares_operation.rs
\* SecretShare::share_secret; r1, r2 are the random byte vectors share1, share2
share_secret(s, r1, r2) ==
    LET share3 == [i \in 1..Len(s) |-> ByteXor(ByteXor(s[i], r1[i]), r2[i])]
    IN  << [share1 |-> r1,     share2 |-> r2,     party_id |-> 0],
           [share1 |-> r2,     share2 |-> share3, party_id |-> 1],
           [share1 |-> share3, share2 |-> r1,     party_id |-> 2] >>

\* SecretShare::reconstruct: byte-wise XOR of the three share1 vectors
reconstruct(sh) ==
    [i \in 1..Len(sh[1].share1) |->
        ByteXor(ByteXor(sh[1].share1[i], sh[2].share1[i]), sh[3].share1[i])]

\* ------------------------------------------------------- sharing: inputs
BitBlocks   == SeqsUpTo(BOOLEAN, MaxBits)
\* sample bytes: all bits clear, all bits set, and a mixed pattern (0xA5)
ByteSamples == {0, 165, 255}
ByteBlocks  == SeqsUpTo(ByteSamples, MaxSecretLen)

EmptyShares     == [p \in Parties |-> [bits |-> <<>>]]
EmptyByteShares == [p \in Parties |-> [share1 |-> <<>>, share2 |-> <<>>, party_id |-> p - 1]]

ShareIdle ==
    /\ bits = <<>> /\ bitsShared = FALSE /\ shares = EmptyShares
    /\ secret = <<>> /\ bytesShared = FALSE /\ byteShares = EmptyByteShares

\* One job per run: a bit block for the data owner, or a byte block for the
\* helpers' SecretShare.
ShareInit ==
    /\ bitsShared = FALSE /\ shares = EmptyShares
    /\ bytesShared = FALSE /\ byteShares = EmptyByteShares
    /\ \/ bits \in BitBlocks /\ secret = <<>>
       \/ bits = <<>> /\ secret \in ByteBlocks

\* share_bit_string(&bits, rng)
ShareBitString ==
    /\ ~bitsShared
    /\ \E rnd \in [1..Len(bits) -> BOOLEAN \X BOOLEAN] :
           shares' = share_bit_string(bits, rnd)
    /\ bitsShared' = TRUE
    /\ UNCHANGED <<bits, secret, bytesShared, byteShares, crVars, gateVars, evalVars, planVars, extVars>>

\* SecretShare::share_secret(&secret)
ShareSecret ==
    /\ ~bytesShared
    /\ \E r1 \in [1..Len(secret) -> ByteSamples], r2 \in [1..Len(secret) -> ByteSamples] :
           byteShares' = share_secret(secret, r1, r2)
    /\ bytesShared' = TRUE
    /\ UNCHANGED <<bits, bitsShared, shares, secret, crVars, gateVars, evalVars, planVars, extVars>>

\* ----------------------------------- computing_node/src/correlated_randomness.rs
KeySpace == 1..NumKeys
IdSpace  == 1..NumIds

\* prf(key, id): the first bit of SHA-256(key || id).  The hash is not
\* computed here: prfTable fixes, for the whole run, an arbitrary bit for
\* every (key, id), so the same key and id always give the same bit.
prf(key, id) == prfTable[<<key, id>>]

\* generate_correlated_single_bit; alpha, beta are the two rng draws
generate_correlated_single_bit(alpha, beta) ==
    [alpha |-> alpha, beta |-> beta, gamma |-> Xor(alpha, beta)]

\* generate_information_theoretic_correlated_randomness; p1, p2, p3 are the draws
generate_information_theoretic_correlated_randomness(p1, p2, p3) ==
    [alpha |-> Xor(p3, p1), beta |-> Xor(p1, p2), gamma |-> Xor(p2, p3)]

\* A mutation of get_next_correlated_bit: gamma pairs k3 with k2 instead of k1.
get_next_correlated_bit_wrongKey(ks, id) ==
    [alpha |-> Xor(prf(ks.k1, id), prf(ks.k2, id)),
     beta  |-> Xor(prf(ks.k2, id), prf(ks.k3, id)),
     gamma |-> Xor(prf(ks.k3, id), prf(ks.k2, id))]

\* A mutation of get_next_correlated_bit: alpha is F_k1(id) alone.
get_next_correlated_bit_oneKey(ks, id) ==
    [alpha |-> prf(ks.k1, id),
     beta  |-> Xor(prf(ks.k2, id), prf(ks.k3, id)),
     gamma |-> Xor(prf(ks.k3, id), prf(ks.k1, id))]

\* get_next_correlated_bit(keys, id)
get_next_correlated_bit(ks, id) ==
    [alpha |-> Xor(prf(ks.k1, id), prf(ks.k2, id)),
     beta  |-> Xor(prf(ks.k2, id), prf(ks.k3, id)),
     gamma |-> Xor(prf(ks.k3, id), prf(ks.k1, id))]

NoTriple == [alpha |-> FALSE, beta |-> FALSE, gamma |-> FALSE]
NoKeys   == [k1 |-> 1, k2 |-> 1, k3 |-> 1]

CRIdle ==
    /\ prfTable = [ki \in KeySpace \X IdSpace |-> FALSE]
    /\ keys = NoKeys /\ keysInit = FALSE
    /\ triple = NoTriple /\ tripleBy = "none"

CRInit ==
    /\ prfTable \in [KeySpace \X IdSpace -> BOOLEAN]
    /\ keys = NoKeys /\ keysInit = FALSE
    /\ triple = NoTriple /\ tripleBy = "none"

\* init_computational_correlated_randomness(): each party draws its key
InitComputational ==
    /\ ~keysInit
    /\ keys' \in [k1 : KeySpace, k2 : KeySpace, k3 : KeySpace]
    /\ keysInit' = TRUE
    /\ UNCHANGED <<prfTable, triple, tripleBy, shareVars, gateVars, evalVars, planVars, extVars>>

\* a call of generate_correlated_single_bit()
GenerateCorrelatedSingleBit ==
    /\ \E alpha \in BOOLEAN, beta \in BOOLEAN :
           triple' = generate_correlated_single_bit(alpha, beta)
    /\ tripleBy' = "single_bit"
    /\ UNCHANGED <<prfTable, keys, keysInit, shareVars, gateVars, evalVars, planVars, extVars>>

\* a call of generate_information_theoretic_correlated_randomness()
GenerateInformationTheoretic ==
    /\ \E p1 \in BOOLEAN, p2 \in BOOLEAN, p3 \in BOOLEAN :
           triple' = generate_information_theoretic_correlated_randomness(p1, p2, p3)
    /\ tripleBy' = "it"
    /\ UNCHANGED <<prfTable, keys, keysInit, shareVars, gateVars, evalVars, planVars, extVars>>

\* a call of get_next_correlated_bit(&keys, id)
GetNextCorrelatedBit ==
    /\ keysInit
    /\ \E id \in IdSpace : triple' = get_next_correlated_bit(keys, id)
    /\ tripleBy' = "prf"
    /\ UNCHANGED <<prfTable, keys, keysInit, shareVars, gateVars, evalVars, planVars, extVars>>

\* format!("gate_{}", i): the id of the i-th triple of a batch, a different
\* id for every i
gate_id(i) == i + 1

\* generate_batch_correlated_randomness(keys, count)
generate_batch_correlated_randomness(ks, count) ==
    [i \in 1..count |-> get_next_correlated_bit(ks, gate_id(i - 1))]

BatchIdle == batch_count = 0 /\ batch = <<>> /\ batch_done = FALSE

BatchInit == batch_count \in 0..NumIds /\ batch = <<>> /\ batch_done = FALSE

\* a call of generate_batch_correlated_randomness(&keys, count)
GenerateBatch ==
    /\ keysInit /\ ~batch_done
    /\ batch' = generate_batch_correlated_randomness(keys, batch_count)
    /\ batch_done' = TRUE
    /\ UNCHANGED <<batch_count, nodeVars, ownerVars, storeVars, simVars, rhoVars, shareVars, crVars, gateVars, evalVars, planVars>>

\* ----------------------------------- computing_node/src/boolean_circuits.rs
\* GateType (types.rs)
GateTypes == {"AND", "OR", "XOR", "NOT"}

\* generate_shares(secret); x1, x2 are the two rng draws.  The result is
\* CompleteShares {p1_share, p2_share, p3_share}, indexed here by party.
generate_shares(v, x1, x2) ==
    LET x3 == Xor(x1, x2)
    IN  << [x |-> x1, a |-> Xor(x3, v)],
           [x |-> x2, a |-> Xor(x1, v)],
           [x |-> x3, a |-> Xor(x2, v)] >>

\* reconstruct_shares(share1, share2)
reconstruct_shares(share1, share2) ==
    Xor(Xor(share1.x, share1.a), Xor(share2.x, share2.a))

\* verify_shares(shares): x1 ^ x2 ^ x3 == false
verify_shares(sh) == Xor3(sh[1].x, sh[2].x, sh[3].x) = FALSE

\* The secret a sharing dealt by generate_shares gives party p's pair:
\* a_p = x_{p-1} ^ v, so v = a_p ^ x_{p-1}.
ShareValue(sh, p) == Xor(sh[p].a, sh[PrevParty(p)].x)

\* sh is what generate_shares can deal for v: the x components XOR to 0 and
\* every party's a component is aligned with its ring predecessor's x.
ValidSharing(sh, v) ==
    /\ verify_shares(sh)
    /\ \A p \in Parties : ShareValue(sh, p) = v

\* A mutation of xor_gate_single_bit: the second component mixes a with x.
xor_gate_single_bit_mixed(share1, share2) ==
    [x |-> Xor(share1.x, share2.x), a |-> Xor(share1.a, share2.x)]

\* xor_gate_single_bit(share1, share2)
xor_gate_single_bit(share1, share2) ==
    [x |-> Xor(share1.x, share2.x), a |-> Xor(share1.a, share2.a)]

\* and_gate_single_bit(share1, share2, correlated_randomness): r1, r2, r3 are
\* all computed from the caller's own two shares, and the share returned is
\* P1's, (z1, c1), whichever party calls.
and_gate_single_bit(share1, share2, cr) ==
    LET xy == (share1.x /\ share2.x)
        ab == (share1.a /\ share2.a)
        r1 == Xor3(xy, ab, cr.alpha)
        r2 == Xor3(xy, ab, cr.beta)
        r3 == Xor3(xy, ab, cr.gamma)
        z1 == Xor(r1, r3)
        c1 == r1
    IN  [x |-> z1, a |-> c1]

\* A mutation of not_gate_single_bit: the x component is flipped instead of a.
not_gate_single_bit_flipX(share) == [x |-> ~share.x, a |-> share.a]

\* not_gate_single_bit(share): only the a component is flipped
not_gate_single_bit(share) == [x |-> share.x, a |-> ~share.a]

\* or_gate_single_bit: NOT(NOT a AND NOT b)
or_gate_single_bit(share1, share2, cr) ==
    not_gate_single_bit(
        and_gate_single_bit(not_gate_single_bit(share1), not_gate_single_bit(share2), cr))

\* ------------------------------------------------- one gate, three parties
ZeroShare  == [x |-> FALSE, a |-> FALSE]
ZeroShares == [p \in Parties |-> ZeroShare]
NoRecon    == [called |-> FALSE, i |-> 1, j |-> 1, v |-> FALSE]

GateIdle ==
    /\ gx = FALSE /\ gy = FALSE /\ gkind = "XOR" /\ gpc = "idle"
    /\ sx = ZeroShares /\ sy = ZeroShares /\ gcr = NoTriple
    /\ gout = ZeroShares /\ gdone = {} /\ recon = NoRecon

GateInit ==
    /\ gx \in BOOLEAN /\ gy \in BOOLEAN /\ gkind \in GateTypes /\ gpc = "input"
    /\ sx = ZeroShares /\ sy = ZeroShares /\ gcr = NoTriple
    /\ gout = ZeroShares /\ gdone = {} /\ recon = NoRecon

\* The dealer shares x and y: two calls of generate_shares.
GenerateShares ==
    /\ gpc = "input"
    /\ \E x1 \in BOOLEAN, x2 \in BOOLEAN : sx' = generate_shares(gx, x1, x2)
    /\ \E y1 \in BOOLEAN, y2 \in BOOLEAN : sy' = generate_shares(gy, y1, y2)
    /\ gpc' = "shared"
    /\ UNCHANGED <<gx, gy, gkind, gcr, gout, gdone, recon, shareVars, crVars, evalVars, planVars, extVars>>

\* The triple for the gate: generate_correlated_single_bit(), wrapped into a
\* CorrelatedRandomnessBoolean as lib.rs run() does.
DealTriple ==
    /\ gpc = "shared"
    /\ \E alpha \in BOOLEAN, beta \in BOOLEAN :
           gcr' = generate_correlated_single_bit(alpha, beta)
    /\ gpc' = "ready"
    /\ UNCHANGED <<gx, gy, gkind, sx, sy, gout, gdone, recon, shareVars, crVars, evalVars, planVars, extVars>>

\* reconstruct_shares(&shares.p_i, &shares.p_j) on the shares of x
ReconstructShares(i, j) ==
    /\ gpc \in {"shared", "ready"}
    /\ i # j
    /\ recon' = [called |-> TRUE, i |-> i, j |-> j, v |-> reconstruct_shares(sx[i], sx[j])]
    /\ UNCHANGED <<gx, gy, gkind, gpc, sx, sy, gcr, gout, gdone, shareVars, crVars, evalVars, planVars, extVars>>

\* Party p evaluates the gate on its own shares of x and y.
PartyReturns(p, result) ==
    /\ gpc = "ready"
    /\ p \notin gdone
    /\ gout' = [gout EXCEPT ![p] = result]
    /\ gdone' = gdone \cup {p}
    /\ UNCHANGED <<gx, gy, gkind, gpc, sx, sy, gcr, recon, shareVars, crVars, evalVars, planVars, extVars>>

XorGate(p) == gkind = "XOR" /\ PartyReturns(p, xor_gate_single_bit(sx[p], sy[p]))
AndGate(p) == gkind = "AND" /\ PartyReturns(p, and_gate_single_bit(sx[p], sy[p], gcr))
OrGate(p)  == gkind = "OR"  /\ PartyReturns(p, or_gate_single_bit(sx[p], sy[p], gcr))
NotGate(p) == gkind = "NOT" /\ PartyReturns(p, not_gate_single_bit(sx[p]))

\* --------------------------------------------------- circuit evaluation
\* Option<usize>::None of CircuitNode.input1 / input2
NoneWire == -1

\* The CircuitNodes a circuit may hold at position k (0-based): a gate reads
\* wires already written (inputs and earlier outputs) and writes wire
\* input_count + k, as create_example_circuit and create_complex_circuit do.
\* gate_id is never read by the evaluator and is left out.
GatesAt(k) ==
    LET written == 0..(NumInputs + k - 1)
    IN  {[gate_type |-> t, input1 |-> i1, input2 |-> i2, output |-> NumInputs + k] :
            t \in {"XOR", "AND", "OR"}, i1 \in written, i2 \in written}
        \cup
        {[gate_type |-> "NOT", input1 |-> i1, input2 |-> NoneWire, output |-> NumInputs + k] :
            i1 \in written}

RECURSIVE NodeSeqs(_)
\* The gate lists of exactly n gates
NodeSeqs(n) ==
    IF n = 0 THEN {<<>>}
    ELSE {Append(ns, g) : ns \in NodeSeqs(n - 1), g \in GatesAt(n - 1)}

\* BooleanCircuits of 1..maxGates gates over NumInputs input wires, the last
\* gate's wire being the declared output.  topological_order is never read
\* by the evaluator and is left out.
Circuits(maxGates) ==
    {[nodes |-> ns, input_count |-> NumInputs, output_count |-> 1] :
        ns \in UNION {NodeSeqs(n) : n \in 1..maxGates}}

\* CircuitNode.output and CircuitNode.input1 are plain usize fields that
\* nothing validates.  The CircuitNodes below number their wires freely: the
\* gate at position k writes an input wire (0), its own wire, the wire after
\* its own (leaving a gap) or the wire of the gate before it, and reads any
\* wire up to the last one a gate here can write.  The gates are NOT gates
\* and XOR gates whose second input is input wire 0.
WireGatesAt(k) ==
    LET outs  == {0, NumInputs + k, NumInputs + k + 1}
                     \cup (IF k > 0 THEN {NumInputs + k - 1} ELSE {})
        reads == 0..(NumInputs + MaxGates)
    IN  {[gate_type |-> "NOT", input1 |-> i1, input2 |-> NoneWire, output |-> o] :
            i1 \in reads, o \in outs}
        \cup
        {[gate_type |-> "XOR", input1 |-> i1, input2 |-> 0, output |-> o] :
            i1 \in reads, o \in outs}

RECURSIVE WireNodeSeqs(_)
\* The freely numbered gate lists of exactly n gates
WireNodeSeqs(n) ==
    IF n = 0 THEN {<<>>}
    ELSE {Append(ns, g) : ns \in WireNodeSeqs(n - 1), g \in WireGatesAt(n - 1)}

\* BooleanCircuits of 1..maxGates freely numbered gates
WireCircuits(maxGates) ==
    {[nodes |-> ns, input_count |-> NumInputs, output_count |-> 1] :
        ns \in UNION {WireNodeSeqs(n) : n \in 1..maxGates}}

\* The triples a generator can supply (generate_correlated_single_bit)
SuppliedTriples ==
    {generate_correlated_single_bit(alpha, beta) : alpha \in BOOLEAN, beta \in BOOLEAN}

\* inputs[gate.inputN.unwrap()] panics: None, or an index out of bounds
ReadPanics(w, inputs) == w = NoneWire \/ w >= Len(inputs)

\* evaluate_gate panics on gate
GatePanics(gate, inputs) ==
    \/ ReadPanics(gate.input1, inputs)
    \/ gate.gate_type # "NOT" /\ ReadPanics(gate.input2, inputs)

\* evaluate_gate(gate, inputs, correlated_randomness), where it does not panic
evaluate_gate(gate, inputs, cr) ==
    CASE gate.gate_type = "XOR" ->
             xor_gate_single_bit(inputs[gate.input1 + 1], inputs[gate.input2 + 1])
      [] gate.gate_type = "AND" ->
             and_gate_single_bit(inputs[gate.input1 + 1], inputs[gate.input2 + 1], cr)
      [] gate.gate_type = "OR" ->
             or_gate_single_bit(inputs[gate.input1 + 1], inputs[gate.input2 + 1], cr)
      [] gate.gate_type = "NOT" ->
             not_gate_single_bit(inputs[gate.input1 + 1])

\* while all_values.len() <= output { push (false, false) }
PadTo(vals, output) ==
    IF Len(vals) <= output
    THEN vals \o [k \in 1..(output + 1 - Len(vals)) |-> ZeroShare]
    ELSE vals

\* The index evaluate_circuit takes for gate i (0-based) out of n triples
CrIndex(i, n) == i % n

RECURSIVE RunGates(_, _, _, _)
\* The gate loop of evaluate_circuit from gate i (0-based) on; acc holds
\* all_values, the triple index taken for every gate so far, and whether a
\* panic ended the call.
RunGates(nodes, crs, i, acc) ==
    IF i >= Len(nodes) THEN acc
    ELSE IF Len(crs) = 0 THEN [acc EXCEPT !.panicked = TRUE]
    ELSE LET gate == nodes[i + 1]
             idx  == CrIndex(i, Len(crs))
         IN  IF GatePanics(gate, acc.all_values)
             THEN [acc EXCEPT !.panicked = TRUE]
             ELSE LET result == evaluate_gate(gate, acc.all_values, crs[idx + 1])
                      padded == PadTo(acc.all_values, gate.output)
                  IN  RunGates(nodes, crs, i + 1,
                               [acc EXCEPT !.all_values =
                                               [padded EXCEPT ![gate.output + 1] = result],
                                           !.used = Append(acc.used, idx)])

\* evaluate_circuit(circuit, input_shares, correlated_randomness)
evaluate_circuit(c, ins, crs) ==
    LET r == RunGates(c.nodes, crs, 0, [all_values |-> ins, used |-> <<>>, panicked |-> FALSE])
    IN  [panicked   |-> r.panicked,
         all_values |-> r.all_values,
         used       |-> r.used,
         outputs    |-> IF r.panicked THEN <<>>
                        ELSE SubSeq(r.all_values, Len(ins) + 1, Len(r.all_values))]

\* init_protocol_state(party_id); the two maps start empty and are never
\* touched by the evaluator
init_protocol_state(party_id) ==
    [party_id |-> party_id, communication_rounds |-> 0, total_operations |-> 0]

EvalBlank ==
    /\ input_shares = [p \in Parties |-> <<>>]
    /\ correlated_randomness = <<>>
    /\ epc = [p \in Parties |-> "ready"]
    /\ all_values = [p \in Parties |-> <<>>]
    /\ outputs = [p \in Parties |-> <<>>]
    /\ used = [p \in Parties |-> <<>>]
    /\ state = [p \in Parties |-> init_protocol_state(p)]
    /\ sent = [p \in Parties |-> <<>>]

EvalIdle ==
    /\ circuit = [nodes |-> <<>>, input_count |-> 0, output_count |-> 0]
    /\ clear = <<>> /\ ephase = "idle"
    /\ EvalBlank

EvalInit ==
    /\ circuit \in Circuits(MaxGates)
    /\ clear \in [1..NumInputs -> BOOLEAN]
    /\ ephase = "input"
    /\ EvalBlank

\* A circuit whose wires are numbered freely
WireInit ==
    /\ circuit \in WireCircuits(MaxGates)
    /\ clear \in [1..NumInputs -> BOOLEAN]
    /\ ephase = "input"
    /\ EvalBlank

\* The dealer shares every input wire: one generate_shares call per wire;
\* party p's input_shares are the p-th shares.
ShareInputs ==
    /\ ephase = "input"
    /\ \E rnd \in [1..Len(clear) -> BOOLEAN \X BOOLEAN] :
           input_shares' =
               [p \in Parties |->
                   [w \in 1..Len(clear) |-> generate_shares(clear[w], rnd[w][1], rnd[w][2])[p]]]
    /\ ephase' = "shared"
    /\ UNCHANGED <<circuit, clear, correlated_randomness, epc, all_values, outputs, used,
                   state, sent, shareVars, crVars, gateVars, planVars, extVars>>

\* The triples handed to every party's evaluate_circuit call
SupplyTriples ==
    /\ ephase = "shared"
    /\ correlated_randomness' \in SeqsUpTo(SuppliedTriples, MaxTriples)
    /\ ephase' = "ready"
    /\ UNCHANGED <<circuit, clear, input_shares, epc, all_values, outputs, used,
                   state, sent, shareVars, crVars, gateVars, planVars, extVars>>

\* Party p calls evaluate_circuit(&circuit, &input_shares, &correlated_randomness).
\* The call neither takes nor returns the party's MPCProtocolState, and no
\* gate it evaluates sends or receives anything: and_gate_single_bit prints
\* "Communication: P1->P2, P2->P3, P3->P1" and computes r1, r2, r3 itself.
EvaluateCircuit(p) ==
    /\ ephase = "ready"
    /\ epc[p] = "ready"
    /\ \E r \in {evaluate_circuit(circuit, input_shares[p], correlated_randomness)} :
           /\ epc' = [epc EXCEPT ![p] = IF r.panicked THEN "panicked" ELSE "done"]
           /\ all_values' = [all_values EXCEPT ![p] = r.all_values]
           /\ outputs' = [outputs EXCEPT ![p] = r.outputs]
           /\ used' = [used EXCEPT ![p] = r.used]
    /\ UNCHANGED <<circuit, clear, ephase, input_shares, correlated_randomness,
                   state, sent, shareVars, crVars, gateVars, planVars, extVars>>

\* ----------------------------------------- data_analyst/src/lib.rs
\* sqlparser's AST, as far as from_query reads it.  A number literal is
\* held as the integer its digits denote (s.parse()).
AstIdentifier(name)   == [kind |-> "Identifier", value |-> name]
AstNumber(n)          == [kind |-> "Number", digits |-> n]
AstString(str)        == [kind |-> "SingleQuotedString", s |-> str]
AstBinaryOp(op, l, r) == [kind |-> "BinaryOp", op |-> op, left |-> l, right |-> r]
AstFunction(name, e)  == [kind |-> "Function", name |-> name, arg |-> e]
NoSelection           == [kind |-> "None"]

\* The analyst's Expr IR and LogicalPlan (the types physical_plan.rs matches on)
Column(i)             == [kind |-> "Column", i |-> i]
LiteralInt(v)         == [kind |-> "LiteralInt", v |-> v]
LiteralString(str)    == [kind |-> "LiteralString", s |-> str]
BinaryOp(op, l, r)    == [kind |-> "BinaryOp", op |-> op, left |-> l, right |-> r]

Bail == [ok |-> FALSE]
Ok(v) == [ok |-> TRUE, v |-> v]

\* ast_expr_to_expr's column table: name -> index
ColumnNames == <<"dept", "salary", "is_admin">>

RECURSIVE ast_expr_to_expr(_)
\* ast_expr_to_expr(ast): Result<Expr>
ast_expr_to_expr(ast) ==
    CASE ast.kind = "Identifier" ->
             IF \E i \in 1..Len(ColumnNames) : ColumnNames[i] = ast.value
             THEN Ok(Column((CHOOSE i \in 1..Len(ColumnNames) : ColumnNames[i] = ast.value) - 1))
             ELSE Bail
      [] ast.kind = "Number" -> Ok(LiteralInt(ast.digits))
      [] ast.kind = "SingleQuotedString" -> Ok(LiteralString(ast.s))
      [] ast.kind = "BinaryOp" ->
             IF ast.op \notin {"Eq", "And", "Plus"} THEN Bail
             ELSE LET l == ast_expr_to_expr(ast.left)
                  IN  IF ~l.ok THEN Bail
                      ELSE LET r == ast_expr_to_expr(ast.right)
                           IN  IF ~r.ok THEN Bail
                               ELSE Ok(BinaryOp(ast.op, l.v, r.v))
      [] OTHER -> Bail

\* is_agg(expr): a call of AVG, SUM or COUNT, spelled in upper case
is_agg(e) == e.kind = "Function" /\ e.name \in {"AVG", "SUM", "COUNT"}

\* unpack_agg(expr), for the names is_agg lets through
unpack_agg(e) ==
    Ok([func  |-> CASE e.name = "AVG" -> "Avg" [] e.name = "SUM" -> "Sum"
                    [] e.name = "COUNT" -> "Count",
        inner |-> e.arg])

\* One SELECT item of an aggregate query: (func, expr, alias), or bail
AggItem(item) ==
    IF ~is_agg(item) THEN Bail
    ELSE LET u == unpack_agg(item)
             e == ast_expr_to_expr(u.v.inner)
         IN  IF ~e.ok THEN Bail
             ELSE Ok([func |-> u.v.func, expr |-> e.v, alias |-> "None"])

\* One SELECT item of a pure projection: (expr, alias), or bail
ProjItem(item) ==
    LET e == ast_expr_to_expr(item)
    IN  IF ~e.ok THEN Bail ELSE Ok([expr |-> e.v, alias |-> "None"])

\* from_query(query): Result<LogicalPlan>.  The SELECT items are
\* SelectItem::UnnamedExpr; there is no GROUP BY.
from_query(q) ==
    LET scan == [kind |-> "Scan", table_name |-> q.from, alias |-> "None"]
        pred == ast_expr_to_expr(q.selection)
        filtered ==
            IF q.selection # NoSelection
            THEN [kind |-> "Filter", input |-> scan, predicate |-> pred.v]
            ELSE scan
        has_agg == \E k \in 1..Len(q.projection) : q.projection[k].kind = "Function"
        aggs  == [k \in 1..Len(q.projection) |-> AggItem(q.projection[k])]
        projs == [k \in 1..Len(q.projection) |-> ProjItem(q.projection[k])]
    IN  IF q.selection # NoSelection /\ ~pred.ok THEN Bail
        ELSE IF has_agg
        THEN IF \E k \in 1..Len(aggs) : ~aggs[k].ok THEN Bail
             ELSE Ok([kind |-> "Aggregate", input |-> filtered, group_exprs |-> <<>>,
                      aggr_exprs |-> [k \in 1..Len(aggs) |-> aggs[k].v]])
        ELSE IF \E k \in 1..Len(projs) : ~projs[k].ok THEN Bail
             ELSE Ok([kind |-> "Project", input |-> filtered,
                      exprs |-> [k \in 1..Len(projs) |-> projs[k].v]])

\* ----------------------------------------- data_analyst/src/circuit_builder.rs
\* CircuitBuilder::new()
CircuitBuilder_new == [next_wire |-> 0, gates |-> <<>>]

\* A mutation of PushGate: next_wire is not advanced.
PushGate_sameWire(b, gate) ==
    [b |-> [next_wire |-> b.next_wire, gates |-> Append(b.gates, gate)],
     w |-> b.next_wire]

\* let w = self.next_wire; self.next_wire += 1; self.gates.push(gate); w
PushGate(b, gate) ==
    [b |-> [next_wire |-> b.next_wire + 1, gates |-> Append(b.gates, gate)],
     w |-> b.next_wire]

\* CircuitBuilder::input, zero, one, and, xor: the builder after the call
\* and the wire returned
CircuitBuilder_input(b) == PushGate(b, [kind |-> "Input", output |-> b.next_wire])
CircuitBuilder_zero(b) ==
    PushGate(b, [kind |-> "Const", value |-> FALSE, output |-> b.next_wire])
CircuitBuilder_one(b) ==
    PushGate(b, [kind |-> "Const", value |-> TRUE, output |-> b.next_wire])
CircuitBuilder_and(b, l, r) ==
    PushGate(b, [kind |-> "And", left |-> l, right |-> r, output |-> b.next_wire])
\* A mutation of CircuitBuilder::xor: the gate pushed is an And gate.
CircuitBuilder_xor_asAnd(b, l, r) ==
    PushGate(b, [kind |-> "And", left |-> l, right |-> r, output |-> b.next_wire])

CircuitBuilder_xor(b, l, r) ==
    PushGate(b, [kind |-> "Xor", left |-> l, right |-> r, output |-> b.next_wire])

\* CircuitBuilder::finish_with_outputs
finish_with_outputs(b, outs) ==
    [wire_count |-> b.next_wire, gates |-> b.gates, outputs |-> outs]

\* ----------------------------------------- data_analyst/src/physical_plan.rs
\* A call that returned wire w, and a call that panicked
Returned(r)  == [b |-> r.b, w |-> r.w, panicked |-> FALSE]
Panicked(b)  == [b |-> b, w |-> 0, out |-> <<>>, panicked |-> TRUE]

RECURSIVE compile_expr_onlyOneIsOne(_, _, _)
\* A mutation of compile_expr: only the literal 1 is lowered to the constant
\* 1; every other integer literal is lowered to the constant 0.
compile_expr_onlyOneIsOne(b, row, expr) ==
    CASE expr.kind = "Column" ->
             IF expr.i >= Len(row) THEN Panicked(b)
             ELSE [b |-> b, w |-> row[expr.i + 1], panicked |-> FALSE]
      [] expr.kind = "LiteralInt" ->
             IF expr.v = 1 THEN Returned(CircuitBuilder_one(b))
             ELSE Returned(CircuitBuilder_zero(b))
      [] expr.kind = "BinaryOp" ->
             LET l == compile_expr_onlyOneIsOne(b, row, expr.left)
             IN  IF l.panicked THEN l
                 ELSE LET r == compile_expr_onlyOneIsOne(l.b, row, expr.right)
                      IN  IF r.panicked THEN r
                          ELSE (CASE expr.op = "And" ->
                                         Returned(CircuitBuilder_and(r.b, l.w, r.w))
                                  [] expr.op = "Plus" ->
                                         Returned(CircuitBuilder_xor(r.b, l.w, r.w))
                                  [] expr.op = "Eq" ->
                                         LET x   == CircuitBuilder_xor(r.b, l.w, r.w)
                                             one == CircuitBuilder_one(x.b)
                                         IN  Returned(CircuitBuilder_xor(one.b, x.w, one.w)))
      [] OTHER -> Returned(CircuitBuilder_zero(b))

RECURSIVE compile_expr(_, _, _)
\* compile_expr(b, row, expr); row[*i] panics on an index out of bounds
compile_expr(b, row, expr) ==
    CASE expr.kind = "Column" ->
             IF expr.i >= Len(row) THEN Panicked(b)
             ELSE [b |-> b, w |-> row[expr.i + 1], panicked |-> FALSE]
      [] expr.kind = "LiteralInt" ->
             IF expr.v = 0 THEN Returned(CircuitBuilder_zero(b))
             ELSE Returned(CircuitBuilder_one(b))
      [] expr.kind = "BinaryOp" ->
             LET l == compile_expr(b, row, expr.left)
             IN  IF l.panicked THEN l
                 ELSE LET r == compile_expr(l.b, row, expr.right)
                      IN  IF r.panicked THEN r
                          ELSE (CASE expr.op = "And" ->
                                         Returned(CircuitBuilder_and(r.b, l.w, r.w))
                                  [] expr.op = "Plus" ->
                                         Returned(CircuitBuilder_xor(r.b, l.w, r.w))
                                  [] expr.op = "Eq" ->
                                         LET x   == CircuitBuilder_xor(r.b, l.w, r.w)
                                             one == CircuitBuilder_one(x.b)
                                         IN  Returned(CircuitBuilder_xor(one.b, x.w, one.w)))
      [] OTHER -> Returned(CircuitBuilder_zero(b))

RECURSIVE AllocateInputs(_, _, _, _, _)
\* The allocation loops of compile_to_circuit from row r, column c (0-based)
\* on: table[r][c] = b.input()
AllocateInputs(b, table, r, c, num_cols) ==
    IF r >= Len(table) THEN [b |-> b, table |-> table]
    ELSE IF c >= num_cols THEN AllocateInputs(b, table, r + 1, 0, num_cols)
    ELSE LET i == CircuitBuilder_input(b)
         IN  AllocateInputs(i.b, [table EXCEPT ![r + 1][c + 1] = i.w], r, c + 1, num_cols)

\* table.iter().flatten().cloned().collect()
RECURSIVE Flatten(_)
Flatten(table) ==
    IF Len(table) = 0 THEN <<>> ELSE Head(table) \o Flatten(Tail(table))

RECURSIVE FilterColumns(_, _, _, _, _, _, _)
\* Filter's inner loop from column c (0-based) of row r on:
\* out.push(b.and(mask, child[r * row.len() + c]))
FilterColumns(b, mask, row_len, child, r, c, out) ==
    IF c >= row_len THEN [b |-> b, out |-> out, panicked |-> FALSE]
    ELSE IF (r * row_len) + c >= Len(child) THEN Panicked(b)
    ELSE LET g == CircuitBuilder_and(b, mask, child[(r * row_len) + c + 1])
         IN  FilterColumns(g.b, mask, row_len, child, r, c + 1, Append(out, g.w))

RECURSIVE FilterRows(_, _, _, _, _, _)
\* Filter's loop over the table's rows from row r (0-based) on
FilterRows(b, table, predicate, child, r, out) ==
    IF r >= Len(table) THEN [b |-> b, out |-> out, panicked |-> FALSE]
    ELSE LET row  == table[r + 1]
             mask == compile_expr(b, row, predicate)
         IN  IF mask.panicked THEN Panicked(mask.b)
             ELSE LET cols == FilterColumns(mask.b, mask.w, Len(row), child, r, 0, out)
                  IN  IF cols.panicked THEN cols
                      ELSE FilterRows(cols.b, table, predicate, child, r + 1, cols.out)

RECURSIVE ProjectExprs(_, _, _, _, _)
\* Project's inner loop from expression k (0-based) on:
\* out.push(compile_expr(b, row, expr))
ProjectExprs(b, row, exprs, k, out) ==
    IF k >= Len(exprs) THEN [b |-> b, out |-> out, panicked |-> FALSE]
    ELSE LET e == compile_expr(b, row, exprs[k + 1].expr)
         IN  IF e.panicked THEN Panicked(e.b)
             ELSE ProjectExprs(e.b, row, exprs, k + 1, Append(out, e.w))

RECURSIVE ProjectRows(_, _, _, _, _)
\* Project's loop over the table's rows from row r (0-based) on
ProjectRows(b, table, exprs, r, out) ==
    IF r >= Len(table) THEN [b |-> b, out |-> out, panicked |-> FALSE]
    ELSE LET row == ProjectExprs(b, table[r + 1], exprs, 0, out)
         IN  IF row.panicked THEN row
             ELSE ProjectRows(row.b, table, exprs, r + 1, row.out)

RECURSIVE AggregateBits(_, _, _, _, _)
\* Aggregate's first loop from row r (0-based) on:
\* bits.push(compile_expr(b, row, &aggr_exprs[0].1))
AggregateBits(b, table, aggr_exprs, r, acc_bits) ==
    IF r >= Len(table) THEN [b |-> b, out |-> acc_bits, panicked |-> FALSE]
    ELSE IF Len(aggr_exprs) = 0 THEN Panicked(b)
    ELSE LET w == compile_expr(b, table[r + 1], aggr_exprs[1].expr)
         IN  IF w.panicked THEN Panicked(w.b)
             ELSE AggregateBits(w.b, table, aggr_exprs, r + 1, Append(acc_bits, w.w))

RECURSIVE XorFold_all(_, _, _, _)
\* A mutation of the fold: it runs over &bits instead of &bits[1..], so
\* bits[0] is folded into acc a second time.
XorFold_all(b, ws, k, acc) ==
    IF k - 1 >= Len(ws) THEN [b |-> b, w |-> acc]
    ELSE LET x == CircuitBuilder_xor(b, acc, ws[k])
         IN  XorFold_all(x.b, ws, k + 1, x.w)

RECURSIVE XorFold(_, _, _, _)
\* for &w in &bits[1..] { acc = b.xor(acc, w) }, from bits[k] (0-based) on
XorFold(b, ws, k, acc) ==
    IF k >= Len(ws) THEN [b |-> b, w |-> acc]
    ELSE LET x == CircuitBuilder_xor(b, acc, ws[k + 1])
         IN  XorFold(x.b, ws, k + 1, x.w)

RECURSIVE lower(_, _, _)
\* compile_to_circuit's lower(b, plan, table); bits[0] panics on no rows
lower(b, lplan, table) ==
    CASE lplan.kind = "Scan" -> [b |-> b, out |-> Flatten(table), panicked |-> FALSE]
      [] lplan.kind = "Filter" ->
             LET child == lower(b, lplan.input, table)
             IN  IF child.panicked THEN child
                 ELSE FilterRows(child.b, table, lplan.predicate, child.out, 0, <<>>)
      [] lplan.kind = "Project" -> ProjectRows(b, table, lplan.exprs, 0, <<>>)
      [] lplan.kind = "Aggregate" ->
             LET agg == AggregateBits(b, table, lplan.aggr_exprs, 0, <<>>)
             IN  IF agg.panicked THEN agg
                 ELSE IF Len(agg.out) = 0 THEN Panicked(agg.b)
                 ELSE LET acc == XorFold(agg.b, agg.out, 1, agg.out[1])
                      IN  [b |-> acc.b, out |-> <<acc.w>>, panicked |-> FALSE]

NoCircuit == [wire_count |-> 0, gates |-> <<>>, outputs |-> <<>>]

\* A mutation of compile_to_circuit: the table is allocated as
\* vec![vec![0; num_rows]; num_columns], rows and columns exchanged.
compile_to_circuit_transposed(lplan, rows, cols) ==
    LET a == AllocateInputs(CircuitBuilder_new,
                            [r \in 1..cols |-> [c \in 1..rows |-> 0]], 0, 0, rows)
        l == lower(a.b, lplan, a.table)
    IN  [panicked |-> l.panicked,
         circuit  |-> IF l.panicked THEN NoCircuit ELSE finish_with_outputs(l.b, l.out)]

\* compile_to_circuit(plan, num_rows, num_columns)
compile_to_circuit(lplan, rows, cols) ==
    LET a == AllocateInputs(CircuitBuilder_new,
                            [r \in 1..rows |-> [c \in 1..cols |-> 0]], 0, 0, cols)
        l == lower(a.b, lplan, a.table)
    IN  [panicked |-> l.panicked,
         circuit  |-> IF l.panicked THEN NoCircuit ELSE finish_with_outputs(l.b, l.out)]

\* Gate: the cleartext value of every wire of a Circuit, its Input gates
\* taking the bits ins in the order the gates stand (nin Input gates stand
\* before gate k).  Each gate's output is the wire after the previous
\* gate's, so vals[w + 1] is wire w.
RECURSIVE WireValuesFrom(_, _, _, _, _)
WireValuesFrom(gates, ins, k, nin, vals) ==
    IF k > Len(gates) THEN vals
    ELSE LET g == gates[k]
         IN  CASE g.kind = "Input" ->
                      WireValuesFrom(gates, ins, k + 1, nin + 1, Append(vals, ins[nin + 1]))
               [] g.kind = "Const" ->
                      WireValuesFrom(gates, ins, k + 1, nin, Append(vals, g.value))
               [] g.kind = "And" ->
                      WireValuesFrom(gates, ins, k + 1, nin,
                                     Append(vals, vals[g.left + 1] /\ vals[g.right + 1]))
               [] g.kind = "Xor" ->
                      WireValuesFrom(gates, ins, k + 1, nin,
                                     Append(vals, Xor(vals[g.left + 1], vals[g.right + 1])))

\* The value of every wire of a Circuit under the input bits ins
WireValues(gates, ins) == WireValuesFrom(gates, ins, 1, 0, <<>>)

\* ------------------------------------------------ the analyst's queries
Min(m, n) == IF m < n THEN m ELSE n

\* Column references to the table's columns
Identifiers ==
    {AstIdentifier(ColumnNames[i]) : i \in 1..Min(NumColumns, Len(ColumnNames))}

AstLeaves ==
    Identifiers \cup {AstNumber(n) : n \in 0..MaxLiteral} \cup {AstString("R&D")}

AstBinary(L, R) == {AstBinaryOp(op, l, r) : op \in {"Eq", "And", "Plus"}, l \in L, r \in R}

\* Expressions of a SELECT list: a leaf, one operator over leaves, or two
\* operators over the first two columns, nested to the left or to the right
SelectExprs ==
    LET c0 == {AstIdentifier(ColumnNames[1])}
        c1 == {AstIdentifier(ColumnNames[2])}
    IN  AstLeaves \cup AstBinary(AstLeaves, AstLeaves)
            \cup AstBinary(AstBinary(c0, c1), c0)
            \cup AstBinary(c0, AstBinary(c0, c1))

\* WHERE clauses: none, a column, or column = literal
Selections ==
    {NoSelection} \cup Identifiers
        \cup {AstBinaryOp("Eq", c, AstNumber(n)) : c \in Identifiers, n \in 0..MaxLiteral}

\* SELECT lists: one item (an expression or SUM of one), or two items over
\* column references
Projections ==
    {<<i>> : i \in SelectExprs \cup {AstFunction("SUM", e) : e \in SelectExprs}}
        \cup {<<i, j>> : i \in Identifiers \cup {AstFunction("SUM", e) : e \in Identifiers},
                         j \in Identifiers \cup {AstFunction("SUM", e) : e \in Identifiers}}

Queries == [from : {"employees"}, selection : Selections, projection : Projections]

NoQuery == [from |-> "", selection |-> NoSelection, projection |-> <<>>]

PlanIdle ==
    /\ query = NoQuery /\ num_rows = 0 /\ num_columns = 0
    /\ plan = Bail /\ compiled = NoCircuit /\ cpc = "idle"

PlanInit ==
    /\ query \in Queries
    /\ num_rows \in 0..MaxRows
    /\ num_columns \in 1..NumColumns
    /\ plan = Bail /\ compiled = NoCircuit /\ cpc = "query"

\* sql_to_logical_plan's from_query(query)
FromQuery ==
    /\ cpc = "query"
    /\ plan' = from_query(query)
    /\ cpc' = IF plan'.ok THEN "planned" ELSE "rejected"
    /\ UNCHANGED <<query, num_rows, num_columns, compiled, shareVars, crVars, gateVars, evalVars, extVars>>

\* compile_to_circuit(&plan, num_rows, num_columns)
CompileToCircuit ==
    /\ cpc = "planned"
    /\ \E r \in {compile_to_circuit(plan.v, num_rows, num_columns)} :
           /\ compiled' = r.circuit
           /\ cpc' = IF r.panicked THEN "panicked" ELSE "compiled"
    /\ UNCHANGED <<query, num_rows, num_columns, plan, shareVars, crVars, gateVars, evalVars, extVars>>

\* ----------------------------------- computing_node/src/node.rs, helpers/
\* The u64 words of a share, kept to WordBits bits
Words == 0..((2 ^ WordBits) - 1)

WordXor(m, k) == BitwiseXor(m, k, WordBits)

RECURSIVE BitwiseAnd(_, _, _)
\* Rust's & on an n-bit unsigned integer
BitwiseAnd(m, k, n) ==
    IF n = 0 THEN 0
    ELSE ((m % 2) * (k % 2)) + (2 * BitwiseAnd(m \div 2, k \div 2, n - 1))

WordAnd(m, k) == BitwiseAnd(m, k, WordBits)

\* hash_value(a): DefaultHasher::new() has fixed keys, so the id is a fixed
\* function of the word; it scrambles the word and keeps distinct words apart
hash_value(a) == ((5 * a) + 3) % (2 ^ WordBits)

\* Option<T>, and unwrap_or_default() on an Option<SecretShareSend>
None == [some |-> FALSE]
Some(v) == [some |-> TRUE, v |-> v]
SecretShareSend_default == [id |-> 0, share |-> 0]
unwrap_or_default(o) == IF o.some THEN o.v ELSE SecretShareSend_default

\* HashMap::new() and HashMap::insert(key, value)
HashMap_new == [k \in {} |-> 0]
HashMap_insert(map, key, value) ==
    [k \in (DOMAIN map) \cup {key} |-> IF k = key THEN value ELSE map[k]]

\* generate_mask(), value1 and value2 being its two random draws
generate_mask(value1, value2) == <<value1, value2, WordXor(value1, value2)>>

\* generate_secret_share(value), share1 and share2 being its random draws
generate_secret_share(value, value1, value2, share1, share2) ==
    LET id     == hash_value(value)
        mask   == generate_mask(value1, value2)
        share3 == WordXor(WordXor(share1, share2), value)
    IN  << [id |-> id, share |-> share1, mask |-> mask[1]],
           [id |-> id, share |-> share2, mask |-> mask[2]],
           [id |-> id, share |-> share3, mask |-> mask[3]] >>

and_operation_noCross(a1, b1, a2, b2, mask) ==
    [id    |-> WordXor(a1.id, b1.id),
     share |-> WordXor(WordAnd(a1.share, b1.share), WordAnd(a1.share, b2.share)),
     mask  |-> mask]

\* and_operation(a1, b1, a2, b2, mask)
and_operation(a1, b1, a2, b2, mask) ==
    [id    |-> WordXor(a1.id, b1.id),
     share |-> WordXor(WordXor(WordAnd(a1.share, b1.share),
                               WordAnd(a1.share, b2.share)),
                       WordAnd(a2.share, b1.share)),
     mask  |-> mask]

\* Node::add_saved_share, add_received_share, add_calculated_share
add_share(map, share) == HashMap_insert(map, share.id, share)

\* Node::send_masked_share(id): the calculated share first, then the saved one
send_masked_share(calculated, saved, id) ==
    IF id \in DOMAIN calculated
    THEN Some([id |-> calculated[id].id,
               share |-> WordXor(calculated[id].share, calculated[id].mask)])
    ELSE IF id \in DOMAIN saved
    THEN Some([id |-> saved[id].id,
               share |-> WordXor(saved[id].share, saved[id].mask)])
    ELSE None

\* Node::send_unmasked_share(id)
send_unmasked_share(saved, id) ==
    IF id \in DOMAIN saved
    THEN Some([id |-> saved[id].id, share |-> saved[id].share])
    ELSE None

\* id1 and id2 of test_three_nodes_secret_sharing
id1 == hash_value(na)
id2 == hash_value(nb)

NoMaps == [i \in Parties |-> HashMap_new]

NodeIdle ==
    /\ na = 0 /\ nb = 0 /\ npc = "idle"
    /\ saved_shares = NoMaps /\ received_shares = NoMaps
    /\ calculated_shares = NoMaps /\ revealed = NoMaps

\* Node::new() for the three nodes; the two values are the run's inputs
NodeInit ==
    /\ na \in Words /\ nb \in Words /\ npc = "start"
    /\ saved_shares = NoMaps /\ received_shares = NoMaps
    /\ calculated_shares = NoMaps /\ revealed = NoMaps

\* node.rs 91-102: both values are shared and node i saves the i-th share of each
SaveShares ==
    /\ npc = "start"
    /\ \E v1 \in Words, v2 \in Words, s1 \in Words, s2 \in Words,
          w1 \in Words, w2 \in Words, t1 \in Words, t2 \in Words :
         LET secret_share1 == generate_secret_share(na, v1, v2, s1, s2)
             secret_share2 == generate_secret_share(nb, w1, w2, t1, t2)
         IN  saved_shares' = [i \in Parties |->
                 add_share(add_share(saved_shares[i], secret_share1[i]),
                           secret_share2[i])]
    /\ npc' = "saved"
    /\ UNCHANGED <<na, nb, received_shares, calculated_shares, revealed,
                   batchVars, ownerVars, storeVars, simVars, rhoVars, shareVars, crVars, gateVars, evalVars, planVars>>

\* node.rs 109-116: every node receives its ring predecessor's unmasked shares
HandToSuccessor ==
    /\ npc = "saved"
    /\ received_shares' = [i \in Parties |->
           add_share(add_share(received_shares[i],
                 unwrap_or_default(send_unmasked_share(saved_shares[PrevParty(i)], id1))),
                 unwrap_or_default(send_unmasked_share(saved_shares[PrevParty(i)], id2)))]
    /\ npc' = "received"
    /\ UNCHANGED <<na, nb, saved_shares, calculated_shares, revealed,
                   batchVars, ownerVars, storeVars, simVars, rhoVars, shareVars, crVars, gateVars, evalVars, planVars>>

\* the .expect() calls of node.rs 118-188 find their shares
SharesPresent(i) ==
    /\ {id1, id2} \subseteq DOMAIN saved_shares[i]
    /\ {id1, id2} \subseteq DOMAIN received_shares[i]

\* node.rs 118-188: every node stores and_operation of its saved and received shares
StoreAndOperation ==
    /\ npc = "received"
    /\ IF \A i \in Parties : SharesPresent(i)
       THEN /\ calculated_shares' = [i \in Parties |->
                   add_share(calculated_shares[i],
                       and_operation(saved_shares[i][id1], saved_shares[i][id2],
                                     received_shares[i][id1], received_shares[i][id2],
                                     saved_shares[i][id1].mask))]
            /\ npc' = "calculated"
       ELSE /\ calculated_shares' = calculated_shares
            /\ npc' = "panicked"
    /\ UNCHANGED <<na, nb, saved_shares, received_shares, revealed,
                   batchVars, ownerVars, storeVars, simVars, rhoVars, shareVars, crVars, gateVars, evalVars, planVars>>

\* node.rs 190-192: every node sends its masked share of id1 ^ id2
SendMaskedShares ==
    /\ npc = "calculated"
    /\ revealed' = [i \in Parties |->
           unwrap_or_default(send_masked_share(calculated_shares[i], saved_shares[i],
                                               WordXor(id1, id2)))]
    /\ npc' = "revealed"
    /\ UNCHANGED <<na, nb, saved_shares, received_shares, calculated_shares,
                   batchVars, ownerVars, storeVars, simVars, rhoVars, shareVars, crVars, gateVars, evalVars, planVars>>

\* ----------------------------------- data_owner/src/lib.rs, encode.rs
\* ColumnType; the String columns have max_chars = MaxChars.  Float columns
\* (64 bits, IEEE 754) are left out of the sampled schemas.
ColumnTypes == {"Boolean", "UnsignedInt", "Ascii", "Utf8"}

\* lib.rs 54-70: column_bit_sizes
column_bit_size(t) ==
    CASE t = "Boolean"     -> 1
      [] t = "UnsignedInt" -> 32
      [] t = "Ascii"       -> MaxChars * 7
      [] t = "Utf8"        -> MaxChars * 8

\* The field values a record may hold in a column of type t
FieldValues(t) ==
    CASE t = "Boolean"     -> {"1", "false", "maybe"}
      [] t = "UnsignedInt" -> {"5", "-1"}
      [] OTHER             -> {"ab"}

\* value.chars(): the code points of the sampled strings
chars(value) ==
    CASE value = "ab" -> <<97, 98>>
      [] OTHER        -> <<>>

RECURSIVE BitsLE(_, _)
\* (n >> i) & 1 == 1 for i in 0..w: the w low bits of n, least significant first
BitsLE(n, w) == IF w = 0 THEN <<>> ELSE <<(n % 2) = 1>> \o BitsLE(n \div 2, w - 1)

Encoded(bs) == [panicked |-> FALSE, bits |-> bs]
EncodePanic == [panicked |-> TRUE, bits |-> <<>>]

\* A mutation of encode_bool: whatever is not true is false.
encode_bool_lenient(value) ==
    IF value \in {"true", "1"} THEN Encoded(<<TRUE>>) ELSE Encoded(<<FALSE>>)

\* encode_bool(value): trimmed and lower-cased, then matched
encode_bool(value) ==
    CASE value \in {"true", "1"}  -> Encoded(<<TRUE>>)
      [] value \in {"false", "0"} -> Encoded(<<FALSE>>)
      [] OTHER                    -> EncodePanic

\* value.parse::<u32>() for the sampled field values
parse_u32(value) ==
    CASE value = "5" -> Ok(5)
      [] value = "1" -> Ok(1)
      [] OTHER       -> Bail

\* encode_unsigned(value)
encode_unsigned(value) ==
    IF parse_u32(value).ok THEN Encoded(BitsLE(parse_u32(value).v, 32)) ELSE EncodePanic

RECURSIVE encode_chars(_, _, _, _)
\* encode_string's loop from character position i on: bits_per_char low bits
\* of each character, '\0' past the end of the string
encode_chars(cs, i, max_chars, bits_per_char) ==
    IF i > max_chars THEN <<>>
    ELSE LET c == IF i <= Len(cs) THEN cs[i] ELSE 0
             b == c % (2 ^ bits_per_char)
         IN  BitsLE(b, bits_per_char) \o encode_chars(cs, i + 1, max_chars, bits_per_char)

\* encode_string(value, max_chars, charset)
encode_string(value, max_chars, charset) ==
    Encoded(encode_chars(chars(value), 1, max_chars, IF charset = "Ascii" THEN 7 ELSE 8))

\* encode_value(value, column)
encode_value(value, t) ==
    CASE t = "Boolean"     -> encode_bool(value)
      [] t = "UnsignedInt" -> encode_unsigned(value)
      [] OTHER             -> encode_string(value, MaxChars, t)

\* A block of bits packed into bytes: bit i of the block is bit i mod 8 of
\* byte i div 8, the last byte padded with zero bits
BitAt(bs, i) == IF i < Len(bs) /\ bs[i + 1] THEN 1 ELSE 0

pack_bits(bs) ==
    [k \in 1..((Len(bs) + 7) \div 8) |->
        LET o == 8 * (k - 1)
        IN  BitAt(bs, o) + (2 * BitAt(bs, o + 1)) + (4 * BitAt(bs, o + 2))
              + (8 * BitAt(bs, o + 3)) + (16 * BitAt(bs, o + 4))
              + (32 * BitAt(bs, o + 5)) + (64 * BitAt(bs, o + 6))
              + (128 * BitAt(bs, o + 7))]

\* The random bits a row's sharing draws from the rng, sampled as streams
RngSamples == {"zeros", "thirds"}
random_bool(stream, k) == stream = "thirds" /\ (k % 3) = 0
random_draws(stream, n) ==
    [i \in 1..n |-> <<random_bool(stream, (2 * i) - 1), random_bool(stream, 2 * i)>>]

\* share_bit_vector(&bits, rng): the block is shared bit by bit and each
\* party's two components are packed into bytes
share_bit_vector(bs, rnd) ==
    LET sh == share_bit_string(bs, rnd)
    IN  [p \in Parties |->
           << pack_bits([i \in 1..Len(bs) |-> sh[p].bits[i].share_a]),
              pack_bits([i \in 1..Len(bs) |-> sh[p].bits[i].share_b]) >>]

\* The state of the row loop of lib.rs 93-121 between two fields
NewRow ==
    [bitstring_a |-> [p \in Parties |-> <<>>], bitstring_b |-> [p \in Parties |-> <<>>],
     column_bit_offsets |-> <<>>, current_offset |-> 0, panicked |-> FALSE]

RECURSIVE ProcessFields(_, _, _, _, _)
\* lib.rs 105-121: the fields of one record from column col_idx (from 1) on
ProcessFields(record, columns, col_idx, stream, acc) ==
    IF col_idx > Min(Len(record), Len(columns)) THEN acc
    ELSE LET enc == encode_value(record[col_idx], columns[col_idx])
         IN  IF enc.panicked THEN [acc EXCEPT !.panicked = TRUE]
             ELSE LET sh == share_bit_vector(enc.bits, random_draws(stream, Len(enc.bits)))
                  IN  ProcessFields(record, columns, col_idx + 1, stream,
                        [bitstring_a |-> [p \in Parties |-> acc.bitstring_a[p] \o sh[p][1]],
                         bitstring_b |-> [p \in Parties |-> acc.bitstring_b[p] \o sh[p][2]],
                         column_bit_offsets |-> Append(acc.column_bit_offsets, acc.current_offset),
                         current_offset |-> acc.current_offset
                                              + column_bit_size(columns[col_idx]),
                         panicked |-> FALSE])

\* lib.rs 124-141: the BinaryRow of party p
BinaryRow(acc, columns, p) ==
    [bitstring_a |-> acc.bitstring_a[p], bitstring_b |-> acc.bitstring_b[p],
     column_bit_offsets |-> acc.column_bit_offsets,
     column_bit_lengths |-> [c \in 1..Len(columns) |-> column_bit_size(columns[c])]]

\* The tables the data owner may load: a schema and records with one field
\* per column
Schemas == UNION {[1..k -> ColumnTypes] : k \in 1..MaxFields}
RecordsOf(columns) ==
    {rec \in [1..Len(columns) -> UNION {FieldValues(t) : t \in ColumnTypes}] :
        \A c \in 1..Len(columns) : rec[c] \in FieldValues(columns[c])}
TablesOf(columns) == UNION {[1..n -> RecordsOf(columns)] : n \in 0..MaxRecords}

NoBinaryRows == [p \in Parties |-> <<>>]

OwnerIdle ==
    /\ schema = <<>> /\ records = <<>> /\ opc = "idle" /\ binary_party = NoBinaryRows
    /\ requests = <<>> /\ send_result = "none" /\ run_result = "none" /\ exit_code = -1

\* the process starts: config_data_owner.json names the table to load
OwnerInit ==
    /\ schema \in Schemas /\ records \in TablesOf(schema)
    /\ opc = "start" /\ binary_party = NoBinaryRows
    /\ requests = <<>> /\ send_result = "none" /\ run_result = "none" /\ exit_code = -1

\* lib.rs 39-49: load_data_and_config; on an error the process exits with 1
LoadDataAndConfig ==
    /\ opc = "start"
    /\ \E loaded \in BOOLEAN :
         IF loaded THEN /\ opc' = "encoding" /\ exit_code' = exit_code
                   ELSE /\ opc' = "exited" /\ exit_code' = 1
    /\ UNCHANGED <<schema, records, binary_party, requests, send_result, run_result,
                   nodeVars, batchVars, storeVars, simVars, rhoVars, shareVars, crVars, gateVars, evalVars, planVars>>

\* lib.rs 93-157: one iteration of the row loop; a field that does not parse
\* panics and the process dies with the panic's exit code
ProcessRecord ==
    /\ opc = "encoding" /\ Len(binary_party[1]) < Len(records)
    /\ \E stream \in RngSamples :
         \E acc \in {ProcessFields(records[Len(binary_party[1]) + 1], schema, 1, stream, NewRow)} :
            IF acc.panicked
            THEN /\ opc' = "panicked" /\ exit_code' = 101
                 /\ binary_party' = binary_party
            ELSE /\ opc' = opc /\ exit_code' = exit_code
                 /\ binary_party' = [p \in Parties |->
                        Append(binary_party[p], BinaryRow(acc, schema, p))]
    /\ UNCHANGED <<schema, records, requests, send_result, run_result,
                   nodeVars, batchVars, storeVars, simVars, rhoVars, shareVars, crVars, gateVars, evalVars, planVars>>

\* grpc_client.rs 139-142 and 148-171: the request to the next node of
\* send_binary_table_shares.  A connection or call that fails ends the loop
\* with Err (the ? operator); the third answer ends it with Ok.  Either way
\* run_data_owner_async then logs and returns Ok(()) (lib.rs 172-198) and
\* main prints success (main.rs 9-12).
SendBinaryToNode ==
    /\ opc = "encoding" /\ Len(binary_party[1]) = Len(records)
    /\ send_result = "none"
    /\ \E outcome \in {"ok", "connect_error", "call_error"} :
         /\ requests' = IF outcome = "connect_error" THEN requests
                        ELSE Append(requests, Len(requests) + 1)
         /\ send_result' = IF outcome # "ok" THEN "Err"
                           ELSE IF Len(requests) = 2 THEN "Ok" ELSE "none"
         /\ IF outcome # "ok" \/ Len(requests) = 2
            THEN opc' = "returned" /\ run_result' = "Ok" /\ exit_code' = 0
            ELSE opc' = opc /\ run_result' = run_result /\ exit_code' = exit_code
    /\ UNCHANGED <<schema, records, binary_party,
                   nodeVars, batchVars, storeVars, simVars, rhoVars, shareVars, crVars, gateVars, evalVars, planVars>>

\* ----------------------------------- computing_node/src/receive/
\* Two SendTableSharesRequest for one (owner_id, table_name) and one party_id:
\* both handlers use the same storage_path, data file and schema file.
Handlers == 1..2

\* The requests: the rows of party_data (a row is one token here) and the
\* schema that goes to schema.json
RowSamples == {"x", "y"}
SchemaSamples == {"s1", "s2"}
StoreRequests == [rows : SeqsUpTo(RowSamples, MaxStoredRows), schema : SchemaSamples]

\* storage.rs 70-107: what write_binary_data writes, one cell per write_all
\* of the header and one cell per row
binary_data(party_data) ==
    <<[magic |-> "FESCASHR"], [u32 |-> Len(party_data.rows)]>>
        \o [i \in 1..Len(party_data.rows) |-> [row |-> party_data.rows[i]]]

\* write_all on a file opened by File::create: the cell goes to the handle's
\* own offset, whatever another handle did to the file since
write_at(file, offset, cell) ==
    [i \in 1..(IF offset + 1 > Len(file) THEN offset + 1 ELSE Len(file)) |->
        IF i = offset + 1 THEN cell
        ELSE IF i <= Len(file) THEN file[i]
        ELSE [hole |-> TRUE]]

StoreIdle ==
    /\ store_reqs = <<>> /\ hpc = <<>> /\ woff = <<>>
    /\ data_file = <<>> /\ schema_file = "none"

\* the server has received both requests; nothing is stored yet
StoreInit ==
    /\ store_reqs \in [Handlers -> StoreRequests]
    /\ hpc = [h \in Handlers |-> "received"] /\ woff = [h \in Handlers |-> 0]
    /\ data_file = <<>> /\ schema_file = "none"

\* storage.rs 37-46 and 63: create_dir_all, then File::create truncates the
\* data file and opens it at offset 0
CreateDataFile(h) ==
    /\ hpc[h] = "received"
    /\ data_file' = <<>>
    /\ woff' = [woff EXCEPT ![h] = 0]
    /\ hpc' = [hpc EXCEPT ![h] = "writing"]
    /\ UNCHANGED <<store_reqs, schema_file, simVars, rhoVars, nodeVars, batchVars, ownerVars,
                   shareVars, crVars, gateVars, evalVars, planVars>>

\* storage.rs 71-107: the next write_all of write_binary_data; after the last
\* one the file is closed and store_binary_shares goes on to the schema
WriteAll(h) ==
    /\ hpc[h] = "writing"
    /\ LET cells == binary_data(store_reqs[h])
       IN  /\ data_file' = write_at(data_file, woff[h], cells[woff[h] + 1])
           /\ woff' = [woff EXCEPT ![h] = woff[h] + 1]
           /\ hpc' = [hpc EXCEPT ![h] = IF woff[h] + 1 = Len(cells)
                                        THEN "schema" ELSE "writing"]
    /\ UNCHANGED <<store_reqs, schema_file, simVars, rhoVars, nodeVars, batchVars, ownerVars,
                   shareVars, crVars, gateVars, evalVars, planVars>>

\* storage.rs 50-54 and 113-137: fs::write of schema.json, then the handler
\* answers success (server.rs 59-68)
WriteSchemaJson(h) ==
    /\ hpc[h] = "schema"
    /\ schema_file' = store_reqs[h].schema
    /\ hpc' = [hpc EXCEPT ![h] = "done"]
    /\ UNCHANGED <<store_reqs, woff, data_file, simVars, rhoVars, nodeVars, batchVars, ownerVars,
                   shareVars, crVars, gateVars, evalVars, planVars>>

\* ------------------- correlated_randomness.rs, legacy functions (135-240)
\* ^ on the u8 bits 0 and 1
BitXor(m, k) == (m + k) % 2

\* party_N_generate(): rho is the party's own draw, received the draw that
\* stands for the bit of its ring predecessor
PartyState(rho, received, party_id) ==
    [rho |-> rho, received |-> received,
     computed_value |-> BitXor(received, rho), party_id |-> party_id]

NoPartyState == [rho |-> 0, received |-> 0, computed_value |-> 0, party_id |-> "none"]
NoResult == [alpha |-> 0, beta |-> 0, gamma |-> 0]

SimIdle ==
    /\ sim_pc = "idle" /\ p_state = [p \in Parties |-> NoPartyState]
    /\ sim_result = NoResult /\ verification = 0

\* simulate_paper_protocol() is called
SimInit ==
    /\ sim_pc = "p1" /\ p_state = [p \in Parties |-> NoPartyState]
    /\ sim_result = NoResult /\ verification = 0

\* party_1_generate(), party_2_generate(), party_3_generate(): two draws each
PartyGenerate(p) ==
    /\ sim_pc = <<"p1", "p2", "p3">>[p]
    /\ \E rho \in 0..1, received \in 0..1 :
         p_state' = [p_state EXCEPT ![p] = PartyState(rho, received, <<"P1", "P2", "P3">>[p])]
    /\ sim_pc' = <<"p2", "p3", "verify">>[p]
    /\ UNCHANGED <<sim_result, verification, rhoVars, nodeVars, batchVars, ownerVars, storeVars,
                   shareVars, crVars, gateVars, evalVars, planVars>>

\* simulate_paper_protocol 220-240: the result and its verification
VerifyCorrelation ==
    /\ sim_pc = "verify"
    /\ sim_result' = [alpha |-> p_state[1].computed_value,
                      beta  |-> p_state[2].computed_value,
                      gamma |-> p_state[3].computed_value]
    /\ verification' = BitXor(BitXor(p_state[1].computed_value, p_state[2].computed_value),
                              p_state[3].computed_value)
    /\ sim_pc' = "returned"
    /\ UNCHANGED <<p_state, rhoVars, nodeVars, batchVars, ownerVars, storeVars,
                   shareVars, crVars, gateVars, evalVars, planVars>>

\* ----------------------------------- computing_node/src/grpc.rs
\* CorrelatedRandomnessServiceImpl::new(party_id): the state of one server
NewGrpcPartyState(party_id) ==
    [rho |-> None, received_rho |-> None, computed_value |-> None, party_id |-> party_id]

PartyIds == <<"P1", "P2", "P3">>

\* send_rho1, send_rho2, send_rho3 (grpc.rs 45-91): whichever of the three a
\* server is asked for, it stores the value of the message
send_rho(pstate, rho_msg) == [pstate EXCEPT !.received_rho = Some(rho_msg.rho_value)]

\* send_computed_value (grpc.rs 93-111)
send_computed_value(pstate, computed_msg) ==
    [pstate EXCEPT !.computed_value = Some(computed_msg.computed_value)]

RhoIdle ==
    /\ rhos = <<>> /\ client_pc = "idle" /\ servers = <<>> /\ rho_set_by = <<>>

\* run_grpc_protocol 166-172: the three servers run, the client has drawn
\* rho1, rho2, rho3
RhoInit ==
    /\ rhos \in [Parties -> 0..1] /\ client_pc = "rho1"
    /\ servers = [p \in Parties |-> NewGrpcPartyState(PartyIds[p])]
    /\ rho_set_by = [p \in Parties |-> 0]

\* A send_rho<method> call served by the server of party srv
ServeSendRho(method, srv, rho_value) ==
    /\ servers' = [servers EXCEPT ![srv] =
           send_rho(servers[srv], [rho_value |-> rho_value, sender_id |-> PartyIds[method]])]
    /\ rho_set_by' = [rho_set_by EXCEPT ![srv] =
           IF servers'[srv] # servers[srv] THEN method ELSE rho_set_by[srv]]

\* grpc_client.rs 175-177: p1_send_rho1, p2_send_rho2, p3_send_rho3, each to
\* the server of the sender's ring successor
ClientSendRho(k) ==
    /\ client_pc = <<"rho1", "rho2", "rho3">>[k]
    /\ ServeSendRho(k, NextParty(k), rhos[k])
    /\ client_pc' = <<"rho2", "rho3", "values">>[k]
    /\ UNCHANGED <<rhos, nodeVars, batchVars, ownerVars, storeVars, simVars,
                   shareVars, crVars, gateVars, evalVars, planVars>>

\* grpc_client.rs 179-190 and 113-116: alpha, beta, gamma go to P1, P2, P3
ClientSendComputedValues ==
    /\ client_pc = "values"
    /\ LET computed == <<BitXor(rhos[3], rhos[1]), BitXor(rhos[1], rhos[2]),
                         BitXor(rhos[2], rhos[3])>>
       IN  servers' = [p \in Parties |->
               send_computed_value(servers[p],
                   [computed_value |-> computed[p], party_id |-> PartyIds[p]])]
    /\ client_pc' = "verify"
    /\ UNCHANGED <<rhos, rho_set_by, nodeVars, batchVars, ownerVars, storeVars, simVars,
                   shareVars, crVars, gateVars, evalVars, planVars>>

\* A send_rho<method> call that reaches a server the method is not meant
\* for: every server registers all three methods on its port
StraySendRho(method, srv, rho_value) ==
    /\ srv # NextParty(method)
    /\ client_pc # "idle"
    /\ ServeSendRho(method, srv, rho_value)
    /\ UNCHANGED <<rhos, client_pc, nodeVars, batchVars, ownerVars, storeVars, simVars,
                   shareVars, crVars, gateVars, evalVars, planVars>>

ExtIdle == NodeIdle /\ BatchIdle /\ OwnerIdle /\ StoreIdle /\ SimIdle /\ RhoIdle

\* -------------------------------------------------------- specifications
InitShare == ShareInit /\ CRIdle /\ GateIdle /\ EvalIdle /\ PlanIdle /\ ExtIdle
NextShare == ShareBitString \/ ShareSecret
SpecShare == InitShare /\ [][NextShare]_vars

InitCR == CRInit /\ ShareIdle /\ GateIdle /\ EvalIdle /\ PlanIdle /\ ExtIdle
NextCR ==
    \/ InitComputational
    \/ GenerateCorrelatedSingleBit
    \/ GenerateInformationTheoretic
    \/ GetNextCorrelatedBit
SpecCR == InitCR /\ [][NextCR]_vars

InitGate == GateInit /\ ShareIdle /\ CRIdle /\ EvalIdle /\ PlanIdle /\ ExtIdle
NextGate ==
    \/ GenerateShares
    \/ DealTriple
    \/ \E i \in Parties, j \in Parties : ReconstructShares(i, j)
    \/ \E p \in Parties : XorGate(p)
    \/ \E p \in Parties : AndGate(p)
    \/ \E p \in Parties : OrGate(p)
    \/ \E p \in Parties : NotGate(p)
SpecGate == InitGate /\ [][NextGate]_vars

Init == EvalInit /\ ShareIdle /\ CRIdle /\ GateIdle /\ PlanIdle /\ ExtIdle
Next ==
    \/ ShareInputs
    \/ SupplyTriples
    \/ \E p \in Parties : EvaluateCircuit(p)
Spec == Init /\ [][Next]_vars

\* The evaluator on circuits whose wires are numbered freely
InitWires == WireInit /\ ShareIdle /\ CRIdle /\ GateIdle /\ PlanIdle /\ ExtIdle
SpecWires == InitWires /\ [][Next]_vars

\* The data analyst: a query is planned, the plan compiled to a circuit
InitPlan == PlanInit /\ ShareIdle /\ CRIdle /\ GateIdle /\ EvalIdle /\ ExtIdle
NextPlan == FromQuery \/ CompileToCircuit
SpecPlan == InitPlan /\ [][NextPlan]_vars

\* the three Nodes of node.rs
InitNode == NodeInit /\ BatchIdle /\ OwnerIdle /\ StoreIdle /\ ShareIdle /\ CRIdle /\ GateIdle /\ EvalIdle /\ PlanIdle /\ SimIdle /\ RhoIdle
NextNode == SaveShares \/ HandToSuccessor \/ StoreAndOperation \/ SendMaskedShares
SpecNode == InitNode /\ [][NextNode]_vars

\* the two dealers side by side: share_bit_string and generate_shares
InitViews == ShareInit /\ GateInit /\ CRIdle /\ EvalIdle /\ PlanIdle /\ ExtIdle
NextViews == ShareBitString \/ GenerateShares
SpecViews == InitViews /\ [][NextViews]_vars

\* a batch of triples of the PRF variant
InitBatch == CRInit /\ BatchInit /\ NodeIdle /\ OwnerIdle /\ StoreIdle /\ ShareIdle /\ GateIdle /\ EvalIdle /\ PlanIdle /\ SimIdle /\ RhoIdle
NextBatch == InitComputational \/ GenerateBatch
SpecBatch == InitBatch /\ [][NextBatch]_vars

\* a run of the data owner
InitOwner == OwnerInit /\ NodeIdle /\ BatchIdle /\ StoreIdle /\ ShareIdle /\ CRIdle /\ GateIdle /\ EvalIdle /\ PlanIdle /\ SimIdle /\ RhoIdle
NextOwner == LoadDataAndConfig \/ ProcessRecord \/ SendBinaryToNode
SpecOwner == InitOwner /\ [][NextOwner]_vars

\* two concurrent ingestions into the share store
InitStore == StoreInit /\ NodeIdle /\ BatchIdle /\ OwnerIdle /\ ShareIdle /\ CRIdle /\ GateIdle /\ EvalIdle /\ PlanIdle /\ SimIdle /\ RhoIdle
NextStore == \E h \in Handlers : CreateDataFile(h) \/ WriteAll(h) \/ WriteSchemaJson(h)
SpecStore == InitStore /\ [][NextStore]_vars

\* the simulated run of the paper's protocol
InitSim == SimInit /\ NodeIdle /\ BatchIdle /\ OwnerIdle /\ StoreIdle /\ ShareIdle /\ CRIdle /\ GateIdle /\ EvalIdle /\ PlanIdle /\ RhoIdle
NextSim == (\E p \in Parties : PartyGenerate(p)) \/ VerifyCorrelation
SpecSim == InitSim /\ [][NextSim]_vars

\* the rho exchange over gRPC
InitRho == RhoInit /\ NodeIdle /\ BatchIdle /\ OwnerIdle /\ StoreIdle /\ SimIdle /\ ShareIdle /\ CRIdle /\ GateIdle /\ EvalIdle /\ PlanIdle
NextRho ==
    \/ \E k \in Parties : ClientSendRho(k)
    \/ ClientSendComputedValues
    \/ \E method \in Parties, srv \in Parties, rho_value \in 0..1 :
          StraySendRho(method, srv, rho_value)
SpecRho == InitRho /\ [][NextRho]_vars

\* ----------------------------------------------------------------- claims
\* C1: once share_bit_string has returned, XOR-ing the first components of
\* the three parties' shares, position by position, gives back the block:
\* for every bit v the three share bits a, b, c satisfy a XOR b XOR c = v.
C1_SharesXorToBlock ==
    bitsShared =>
        /\ \A p \in Parties : Len(shares[p].bits) = Len(bits)
        /\ reconstruct_bit_string(shares[1], shares[2], shares[3]) = bits

C1_Witness ==
    /\ bitsShared /\ Len(bits) = MaxBits
    /\ \E i \in 1..Len(bits) : bits[i] /\ shares[1].bits[i].share_a
    /\ \E i \in 1..Len(bits) : ~bits[i] /\ shares[2].bits[i].share_a

\* C2: party i holds (s_i, s_{i+1 mod 3}): its second component is the next
\* party's first component, and for every pair of distinct parties the XOR
\* of the three distinct components they jointly hold is the secret; for the
\* bits of share_bit_string and, byte-wise, for share_secret.
C2_BitAligned ==
    bitsShared =>
        \A p \in Parties : \A i \in 1..Len(bits) :
            LET mine == shares[p].bits[i]
                next == shares[NextParty(p)].bits[i]
            IN  /\ mine.share_b = next.share_a
                /\ Xor3(mine.share_a, mine.share_b, next.share_b) = bits[i]

C2_ByteAligned ==
    bytesShared =>
        \A p \in Parties :
            LET mine == byteShares[p]
                next == byteShares[NextParty(p)]
            IN  /\ mine.party_id = p - 1
                /\ Len(mine.share1) = Len(secret) /\ Len(mine.share2) = Len(secret)
                /\ mine.share2 = next.share1
                /\ \A i \in 1..Len(secret) :
                       ByteXor(ByteXor(mine.share1[i], mine.share2[i]), next.share2[i])
                           = secret[i]

C2_CyclicPairs == C2_BitAligned /\ C2_ByteAligned

C2_Witness ==
    /\ bytesShared /\ Len(secret) = MaxSecretLen
    /\ secret[1] = 165 /\ byteShares[1].share1[1] = 255 /\ byteShares[2].share1[1] = 0

\* C3: every triple a generator returned satisfies alpha XOR beta XOR
\* gamma = 0, whatever was drawn and whatever bits the PRF returns.
C3_TripleXorZero ==
    tripleBy # "none" => Xor3(triple.alpha, triple.beta, triple.gamma) = FALSE

C3_Witness ==
    /\ tripleBy = "prf" /\ triple.alpha /\ triple.gamma
    /\ keys.k1 # keys.k2

\* C4: when the three parties have each evaluated the AND gate on their own
\* shares of x and y with one triple alpha XOR beta XOR gamma = 0, the three
\* results are a valid replicated sharing (verify_shares holds, the cyclic
\* alignment is kept) that reconstructs to x AND y.
C4_AndGateSharesProduct ==
    (gkind = "AND" /\ gdone = Parties) => ValidSharing(gout, gx /\ gy)

\* C6: for every secret bit, every draw of generate_shares and every pair of
\* distinct parties (i, j), reconstruct_shares(share_i, share_j) returns the
\* secret.
C6_ReconstructReturnsSecret ==
    recon.called => recon.v = gx

\* C7: when the three parties have each applied xor_gate_single_bit to their
\* own shares of x and y, the results are a valid replicated sharing of
\* x XOR y with the cyclic alignment of the inputs; each party's result is
\* the component-wise XOR of its own two shares.
C7_XorGateLocal ==
    gkind = "XOR" =>
        /\ \A p \in gdone :
               gout[p] = [x |-> Xor(sx[p].x, sy[p].x), a |-> Xor(sx[p].a, sy[p].a)]
        /\ gdone = Parties => ValidSharing(gout, Xor(gx, gy))

C7_Witness ==
    /\ gkind = "XOR" /\ gdone = Parties /\ gx /\ ~gy
    /\ sx[1].x /\ sy[2].x /\ gout[3].a

\* C8 (as claimed): in a NOT gate only P1 changes its share, flipping its
\* first component; P2 and P3 return their input shares unchanged and P1's
\* second component is unchanged.
C8_OnlyP1FlipsFirst ==
    (gkind = "NOT" /\ gdone = Parties) =>
        /\ gout[1] = [x |-> ~sx[1].x, a |-> sx[1].a]
        /\ gout[2] = sx[2]
        /\ gout[3] = sx[3]

\* C8 (amended): in a NOT gate every party flips the second component (a)
\* of its own share and leaves the first (x) unchanged; once all three have
\* done so the results are a valid sharing of NOT x.
C8_EveryPartyFlipsSecond ==
    gkind = "NOT" =>
        /\ \A p \in gdone : gout[p] = [x |-> sx[p].x, a |-> ~sx[p].a]
        /\ gdone = Parties => ValidSharing(gout, ~gx)

C8_Witness ==
    /\ gkind = "NOT" /\ gdone = Parties
    /\ gout[2] # sx[2] /\ gout[3] # sx[3] /\ gout[1].x = sx[1].x

RECURSIVE C5_ClearEval(_, _, _)
\* The cleartext circuit: the Boolean value of every wire after gates i.. of
\* nodes, from the wire values vals (wire w at position w + 1).
C5_ClearEval(nodes, i, vals) ==
    IF i > Len(nodes) THEN vals
    ELSE LET gate == nodes[i]
             in1  == vals[gate.input1 + 1]
             v    == CASE gate.gate_type = "XOR" -> Xor(in1, vals[gate.input2 + 1])
                       [] gate.gate_type = "AND" -> in1 /\ vals[gate.input2 + 1]
                       [] gate.gate_type = "OR"  -> in1 \/ vals[gate.input2 + 1]
                       [] gate.gate_type = "NOT" -> ~in1
         IN  C5_ClearEval(nodes, i + 1, Append(vals, v))

\* C5: for every topologically ordered circuit and every consistent sharing
\* of its inputs, once the three parties have run evaluate_circuit on their
\* own input shares, every output wire reconstructs (from any party's pair
\* and its ring predecessor's) to the value the cleartext circuit computes
\* on the cleartext inputs.
C5_CircuitRefinesCleartext ==
    (\A p \in Parties : epc[p] = "done") =>
        LET cv == C5_ClearEval(circuit.nodes, 1, clear)
        IN  \A k \in 1..Len(outputs[1]) : \A p \in Parties :
                ShareValue(<<outputs[1][k], outputs[2][k], outputs[3][k]>>, p)
                    = cv[circuit.input_count + k]

\* C9: in a finished evaluate_circuit run the k-th AND gate used the k-th
\* supplied triple and no supplied triple was used by two AND gates.
C9_EachAndGateOwnTriple ==
    \A p \in Parties : epc[p] = "done" =>
        LET ands == {g \in 1..Len(circuit.nodes) : circuit.nodes[g].gate_type = "AND"}
        IN  \A g \in ands :
                /\ used[p][g] = Cardinality({h \in ands : h < g})
                /\ \A h \in ands \ {g} : used[p][h] # used[p][g]

\* C10: after a party has evaluated a circuit its round counter
\* communication_rounds equals the number of AND gates evaluated.
C10_RoundsCountAndGates ==
    \A p \in Parties : epc[p] = "done" =>
        state[p].communication_rounds =
            Cardinality({g \in 1..Len(circuit.nodes) : circuit.nodes[g].gate_type = "AND"})

\* C11: evaluate_circuit returns exactly the shares of the declared output
\* wires, in order: output_count entries (the last output_count wires of
\* the arena), no input wire and no intermediate wire.
C11_ReturnsDeclaredOutputs ==
    \A p \in Parties : epc[p] = "done" =>
        LET n == Len(all_values[p])
        IN  /\ Len(outputs[p]) = circuit.output_count
            /\ outputs[p] = SubSeq(all_values[p], n - circuit.output_count + 1, n)

\* The gates of nodes that write a wire already carrying a share: an input
\* wire or the output wire of an earlier gate.
C12_Overwriting(nodes, input_count) ==
    {g \in 1..Len(nodes) :
        \/ nodes[g].output < input_count
        \/ \E h \in 1..(g - 1) : nodes[h].output = nodes[g].output}

\* C12: no wire is written twice: evaluate_circuit does not run to the end on
\* a circuit with a gate whose output wire already carries a share.
C12_NoWireWrittenTwice ==
    \A p \in Parties : epc[p] = "done" =>
        C12_Overwriting(circuit.nodes, circuit.input_count) = {}

\* The gates of nodes that read a wire never assigned a share: neither an
\* input wire nor the output wire of an earlier gate.
C13_ReadingUnassigned(nodes, input_count) ==
    LET assigned(g) == (0..(input_count - 1)) \cup {nodes[h].output : h \in 1..(g - 1)}
        reads(g)    == {nodes[g].input1} \cup
                           (IF nodes[g].gate_type = "NOT" THEN {} ELSE {nodes[g].input2})
    IN  {g \in 1..Len(nodes) : ~(reads(g) \subseteq assigned(g))}

\* C13: a gate that reads a wire never assigned a share aborts the
\* evaluation: evaluate_circuit returns no result for such a circuit.
C13_UnassignedReadAborts ==
    \A p \in Parties : epc[p] = "done" =>
        C13_ReadingUnassigned(circuit.nodes, circuit.input_count) = {}

\* C14: at every AND gate each party sends exactly one bit to its ring
\* successor (and so receives one from its predecessor): a party that has
\* evaluated the circuit has sent one bit per AND gate.
C14_OneBitPerAndGate ==
    \A p \in Parties : epc[p] = "done" =>
        Len(sent[p]) =
            Cardinality({g \in 1..Len(circuit.nodes) : circuit.nodes[g].gate_type = "AND"})

\* The cleartext bits of the table's row r (1-based) under the assignment
\* ins of bits to the table's wires, row by row
C16_RowBits(ins, r) == [c \in 1..num_columns |-> ins[((r - 1) * num_columns) + c]]

\* The assignments of bits to the wires of the table
C16_Assignments == [1..(num_rows * num_columns) -> BOOLEAN]

RECURSIVE C16_InFragment(_)
\* e is built from column references, the literals 0 and 1, AND, + and =
C16_InFragment(e) ==
    CASE e.kind = "Column" -> TRUE
      [] e.kind = "LiteralInt" -> e.v \in {0, 1}
      [] e.kind = "BinaryOp" -> C16_InFragment(e.left) /\ C16_InFragment(e.right)
      [] OTHER -> FALSE

RECURSIVE C16_ExprValue(_, _)
\* The value of e on a row: AND is conjunction, + is XOR, = is bit equality
C16_ExprValue(e, row) ==
    CASE e.kind = "Column" -> row[e.i + 1]
      [] e.kind = "LiteralInt" -> (e.v = 1)
      [] e.kind = "BinaryOp" ->
             (CASE e.op = "And"  -> C16_ExprValue(e.left, row) /\ C16_ExprValue(e.right, row)
                [] e.op = "Plus" -> Xor(C16_ExprValue(e.left, row), C16_ExprValue(e.right, row))
                [] e.op = "Eq"   -> C16_ExprValue(e.left, row) = C16_ExprValue(e.right, row))

\* C15: above a Filter the masked rows are consumed.  For Project(Filter(Scan))
\* there is one output row per input row and, in every row whose predicate
\* is 0, every projected column bit is 0; for Aggregate(Filter(Scan)) over a
\* column, the parity counts only the rows whose predicate is 1.
C15_FilterMasksRows ==
    (cpc = "compiled" /\ plan.v.input.kind = "Filter"
         /\ C16_InFragment(plan.v.input.predicate)) =>
        \A ins \in C16_Assignments :
            LET vals    == WireValues(compiled.gates, ins)
                pred(r) == C16_ExprValue(plan.v.input.predicate, C16_RowBits(ins, r))
            IN  IF plan.v.kind = "Project"
                THEN LET m == Len(plan.v.exprs)
                     IN  /\ Len(compiled.outputs) = num_rows * m
                         /\ \A r \in 1..num_rows : \A k \in 1..m :
                                (~pred(r) /\ plan.v.exprs[k].expr.kind = "Column") =>
                                    ~vals[compiled.outputs[((r - 1) * m) + k] + 1]
                ELSE LET e == plan.v.aggr_exprs[1].expr
                         ones == {r \in 1..num_rows :
                                     pred(r) /\ C16_ExprValue(e, C16_RowBits(ins, r))}
                     IN  e.kind = "Column" =>
                             vals[compiled.outputs[1] + 1] = (Cardinality(ones) % 2 = 1)

\* C16: for every expression built from column references, the literals 0
\* and 1, AND, + and =, and every assignment of bits to the table's wires,
\* the wire compile_expr returns for a row carries the expression's value on
\* that row (AND conjunction, + XOR, = bit equality).  A Project plan's
\* outputs are the wires compile_expr returned, row by row.
C16_CompileExprValue ==
    (cpc = "compiled" /\ plan.v.kind = "Project") =>
        LET m == Len(plan.v.exprs)
        IN  /\ Len(compiled.outputs) = num_rows * m
            /\ \A ins \in C16_Assignments :
                   LET vals == WireValues(compiled.gates, ins)
                   IN  \A r \in 1..num_rows : \A k \in 1..m :
                           C16_InFragment(plan.v.exprs[k].expr) =>
                               vals[compiled.outputs[((r - 1) * m) + k] + 1]
                                   = C16_ExprValue(plan.v.exprs[k].expr, C16_RowBits(ins, r))

C16_Witness ==
    /\ cpc = "compiled" /\ plan.v.kind = "Project" /\ num_rows = MaxRows
    /\ LET e == plan.v.exprs[1].expr
       IN  /\ e.kind = "BinaryOp" /\ e.op = "And"
           /\ e.left.kind = "BinaryOp" /\ e.left.op = "Eq"
           /\ e.left.left = Column(0) /\ e.left.right = Column(1)
           /\ e.right = Column(0)

\* C17 (as claimed): compile_expr lowers the literal 0 to a constant-0 wire,
\* the literal 1 to a constant-1 wire and every other integer literal to a
\* constant-0 wire.
C17_OtherLiteralsConstZero ==
    (cpc = "compiled" /\ plan.v.kind = "Project") =>
        LET m == Len(plan.v.exprs)
        IN  \A r \in 1..num_rows : \A k \in 1..m :
                LET e == plan.v.exprs[k].expr
                    g == compiled.gates[compiled.outputs[((r - 1) * m) + k] + 1]
                IN  e.kind = "LiteralInt" => (g.kind = "Const" /\ g.value = (e.v = 1))

\* C17 (amended): compile_expr lowers the literal 0 to a constant-0 wire and
\* every other integer literal, 1 included, to a constant-1 wire.
C17_NonZeroLiteralsConstOne ==
    (cpc = "compiled" /\ plan.v.kind = "Project") =>
        LET m == Len(plan.v.exprs)
        IN  \A r \in 1..num_rows : \A k \in 1..m :
                LET e == plan.v.exprs[k].expr
                    g == compiled.gates[compiled.outputs[((r - 1) * m) + k] + 1]
                IN  e.kind = "LiteralInt" => (g.kind = "Const" /\ g.value = (e.v # 0))

C17_Witness ==
    /\ cpc = "compiled" /\ plan.v.kind = "Project" /\ num_rows >= 1
    /\ plan.v.exprs[1].expr = LiteralInt(MaxLiteral)
    /\ compiled.gates[compiled.outputs[1] + 1].value

RECURSIVE C18_AndOps(_)
\* The AND operators of an expression
C18_AndOps(e) ==
    IF e.kind # "BinaryOp" THEN 0
    ELSE C18_AndOps(e.left) + C18_AndOps(e.right) + (IF e.op = "And" THEN 1 ELSE 0)

\* C18: for a table of n >= 1 rows an Aggregate plan compiles to exactly one
\* output wire, whose value is the XOR over all n rows of the first
\* aggregate expression on the row; the fold is the last n - 1 gates, all
\* XOR gates, and the circuit's AND gates are those of the n copies of the
\* expression.
C18_AggregateIsParity ==
    (cpc = "compiled" /\ plan.v.kind = "Aggregate") =>
        LET e  == plan.v.aggr_exprs[1].expr
            ng == Len(compiled.gates)
        IN  /\ num_rows >= 1
            /\ Len(compiled.outputs) = 1
            /\ \A j \in (ng - (num_rows - 1) + 1)..ng : compiled.gates[j].kind = "Xor"
            /\ num_rows > 1 => compiled.outputs[1] = compiled.gates[ng].output
            /\ Cardinality({j \in 1..ng : compiled.gates[j].kind = "And"})
                   = num_rows * C18_AndOps(e)
            /\ C16_InFragment(e) =>
                   \A ins \in C16_Assignments :
                       LET vals == WireValues(compiled.gates, ins)
                           ones == {r \in 1..num_rows : C16_ExprValue(e, C16_RowBits(ins, r))}
                       IN  vals[compiled.outputs[1] + 1] = (Cardinality(ones) % 2 = 1)

C18_Witness ==
    /\ cpc = "compiled" /\ plan.v.kind = "Aggregate" /\ num_rows = MaxRows
    /\ plan.v.aggr_exprs[1].expr = BinaryOp("And", Column(0), Column(1))
    /\ compiled.gates[Len(compiled.gates)].kind = "Xor"

\* C19: compiling any plan for a table with zero rows succeeds and yields a
\* circuit with no input wires; an Aggregate plan's outputs are then
\* constant-0 wires.
C19_ZeroRowsCompile ==
    (cpc \in {"compiled", "panicked"} /\ num_rows = 0) =>
        /\ cpc = "compiled"
        /\ \A j \in 1..Len(compiled.gates) : compiled.gates[j].kind # "Input"
        /\ plan.v.kind = "Aggregate" =>
               /\ Len(compiled.outputs) >= 1
               /\ \A k \in 1..Len(compiled.outputs) :
                      LET g == compiled.gates[compiled.outputs[k] + 1]
                      IN  g.kind = "Const" /\ ~g.value

RECURSIVE C20_Sum(_)
C20_Sum(ws) == IF Len(ws) = 0 THEN 0 ELSE Head(ws) + C20_Sum(Tail(ws))

\* The Input gates of the compiled circuit
C20_Inputs == {j \in 1..Len(compiled.gates) : compiled.gates[j].kind = "Input"}

\* C20 (as claimed): for every schema of column widths, compile_to_circuit
\* allocates num_rows x sum(column_widths) input wires, one per bit of
\* every column of every row, before any other gate.
C20_OneInputPerColumnBit ==
    cpc = "compiled" =>
        \A column_widths \in [1..num_columns -> 1..MaxWidth] :
            C20_Inputs = 1..(num_rows * C20_Sum(column_widths))

\* C20 (amended): compile_to_circuit allocates num_rows x num_columns input
\* wires, one per column of every row, numbered row by row and column by
\* column before any other gate: the wire of column c of row r is
\* r * num_columns + c (both 0-based).
C20_OneInputPerColumn ==
    cpc = "compiled" =>
        /\ C20_Inputs = 1..(num_rows * num_columns)
        /\ \A j \in C20_Inputs : compiled.gates[j].output = j - 1
        /\ plan.v.kind = "Project" =>
               LET m == Len(plan.v.exprs)
               IN  /\ Len(compiled.outputs) = num_rows * m
                   /\ \A r \in 1..num_rows : \A k \in 1..m :
                          LET e == plan.v.exprs[k].expr
                          IN  e.kind = "Column" =>
                                  compiled.outputs[((r - 1) * m) + k]
                                      = ((r - 1) * num_columns) + e.i

C20_Witness ==
    /\ cpc = "compiled" /\ plan.v.kind = "Project"
    /\ num_rows = MaxRows /\ num_columns = NumColumns
    /\ Len(plan.v.exprs) = 2
    /\ plan.v.exprs[1].expr = Column(1) /\ plan.v.exprs[2].expr = Column(0)


\* C21: once every node has handed its unmasked shares of a and b to its ring
\* successor, stored and_operation and sent its masked share of id(a) ^ id(b),
\* the XOR of the three shares sent is a AND b.
C21_RevealedXor ==
    WordXor(WordXor(revealed[1].share, revealed[2].share), revealed[3].share)

C22_ReplicateDraws(v, p, pair) ==
    {d \in BOOLEAN \X BOOLEAN : replicate(v, d[1], d[2])[p] = pair}

C22_GenerateDraws(v, p, pair) ==
    {d \in BOOLEAN \X BOOLEAN : generate_shares(v, d[1], d[2])[p] = pair}

C22_ViewIndependentOfSecret ==
    /\ bitsShared =>
          \A i \in 1..Len(bits), p \in Parties :
              Cardinality(C22_ReplicateDraws(bits[i], p, shares[p].bits[i]))
                = Cardinality(C22_ReplicateDraws(~bits[i], p, shares[p].bits[i]))
    /\ gpc = "shared" =>
          \A p \in Parties :
              /\ Cardinality(C22_GenerateDraws(gx, p, sx[p]))
                   = Cardinality(C22_GenerateDraws(~gx, p, sx[p]))
              /\ Cardinality(C22_GenerateDraws(gy, p, sy[p]))
                   = Cardinality(C22_GenerateDraws(~gy, p, sy[p]))

C22_Witness ==
    /\ bitsShared /\ Len(bits) >= 2 /\ bits[1] # bits[2]
    /\ gpc = "shared" /\ gx # gy

\* C23 as stated: no two triples of a batch generated with one key triple and
\* increasing ids are bitwise identical.
C23_NoTwoTriplesIdentical ==
    batch_done => \A i \in 1..Len(batch), j \in 1..Len(batch) :
                      i # j => batch[i] # batch[j]

\* the change of F_k(id) between the ids of the i-th and the j-th triple
C23_Change(k, i, j) == Xor(prf(k, gate_id(i - 1)), prf(k, gate_id(j - 1)))

\* C23, amended: the triples are single-bit triples, and two triples of a batch
\* are bitwise identical exactly when F_k(id) changes by the same bit between
\* their ids for k1, k2 and k3.
C23_IdenticalIffSameChange ==
    batch_done => \A i \in 1..Len(batch), j \in 1..Len(batch) :
                      (batch[i] = batch[j])
                         <=> /\ C23_Change(keys.k1, i, j) = C23_Change(keys.k2, i, j)
                             /\ C23_Change(keys.k2, i, j) = C23_Change(keys.k3, i, j)

C23_Witness ==
    /\ batch_done /\ Len(batch) = 2 /\ batch[1] = batch[2]
    /\ keys.k1 # keys.k2 /\ prf(keys.k1, gate_id(0)) # prf(keys.k1, gate_id(1))

\* C24: when the request to one of the three computing nodes fails, the data
\* owner's run returns an error and the process exits with 1.
C24_SendFailureIsReported ==
    (opc = "returned" /\ send_result = "Err") => (run_result = "Err" /\ exit_code = 1)

\* every field of every loaded record parses as its column's type
C25_Parses(value, t) ==
    CASE t = "Boolean"     -> value \in {"true", "1", "false", "0"}
      [] t = "UnsignedInt" -> value \in {"5"}
      [] OTHER             -> TRUE

C25_AllFieldsParse ==
    \A r \in 1..Len(records), c \in 1..Len(schema) : C25_Parses(records[r][c], schema[c])

\* C25: a request is issued to a computing node only if every field of every
\* loaded record was encoded; a field that fails to encode ends the run
\* before the first request.
C25_NoSendAfterEncodingFailure ==
    /\ requests # <<>> => C25_AllFieldsParse
    /\ ~C25_AllFieldsParse => opc \in {"start", "encoding", "exited", "panicked"}

C25_Witness ==
    /\ opc = "panicked" /\ requests = <<>>
    /\ Len(records) = 1 /\ Len(schema) = 2
    /\ C25_Parses(records[1][1], schema[1]) /\ ~C25_Parses(records[1][2], schema[2])

\* C26: once both handlers have answered, the data file and the schema file
\* hold, in full, what one of the two requests alone would have written.
C26_LastWriterWins ==
    (\A h \in Handlers : hpc[h] = "done")
        => \E h \in Handlers : /\ data_file = binary_data(store_reqs[h])
                               /\ schema_file = store_reqs[h].schema

\* C27: in simulate_paper_protocol every party's received bit is the bit its
\* ring predecessor chose, and so alpha ^ beta ^ gamma = 0.
C27_ReceivedIsPredecessorsBit ==
    sim_pc = "returned"
        => /\ \A p \in Parties : p_state[p].received = p_state[PrevParty(p)].rho
           /\ verification = 0

\* C28: a server's received_rho is only ever the bit its ring predecessor
\* sent, set by the send_rho method of that predecessor; a send_rho call of
\* another role changes nothing.
C28_OnlyPredecessorSetsReceivedRho ==
    \A p \in Parties :
        /\ rho_set_by[p] \in {0, PrevParty(p)}
        /\ servers[p].received_rho \in {None, Some(rhos[PrevParty(p)])}

\* C29: in a compiled circuit the k-th gate (from 0) has output wire k, an
\* And or Xor gate reads only wires below its output, wire_count is the
\* number of gates, and every declared output is below wire_count.
C29_WellFormedCircuit ==
    cpc = "compiled" =>
        /\ \A k \in 1..Len(compiled.gates) :
              /\ compiled.gates[k].output = k - 1
              /\ compiled.gates[k].kind \in {"And", "Xor"} =>
                    /\ compiled.gates[k].left \in 0..(k - 2)
                    /\ compiled.gates[k].right \in 0..(k - 2)
        /\ compiled.wire_count = Len(compiled.gates)
        /\ \A o \in 1..Len(compiled.outputs) :
              compiled.outputs[o] \in 0..(compiled.wire_count - 1)

C29_Witness ==
    /\ cpc = "compiled" /\ Len(compiled.outputs) >= 2
    /\ \E k \in 1..Len(compiled.gates) : compiled.gates[k].kind = "And"
    /\ \E k \in 1..Len(compiled.gates) : compiled.gates[k].kind = "Xor"
    /\ \E k \in 1..Len(compiled.gates) : compiled.gates[k].kind = "Const"

\* Bit j of a byte vector (bit j mod 8 of byte j div 8); past the end there
\* is no bit
C30_HasBit(bytes, j) == (j \div 8) < Len(bytes)
C30_Bit(bytes, j) == (bytes[(j \div 8) + 1] \div (2 ^ (j % 8))) % 2

\* Bit j of row r as the three parties' rows reconstruct it, from their
\* bitstring_a and from their bitstring_b
C30_RowBitA(r, j) ==
    ((C30_Bit(binary_party[1][r].bitstring_a, j) + C30_Bit(binary_party[2][r].bitstring_a, j)
        + C30_Bit(binary_party[3][r].bitstring_a, j)) % 2) = 1
C30_RowBitB(r, j) ==
    ((C30_Bit(binary_party[1][r].bitstring_b, j) + C30_Bit(binary_party[2][r].bitstring_b, j)
        + C30_Bit(binary_party[3][r].bitstring_b, j)) % 2) = 1

\* C30: in every binary row the share bits of column c start at bit
\* column_bit_offsets[c] of bitstring_a and of bitstring_b and span
\* column_bit_lengths[c] bits: the bits found there are shares of the
\* encoding of the record's field in column c.
C30_ColumnsAtTheirOffsets ==
    \A r \in 1..Len(binary_party[1]) :
      \A c \in 1..Len(schema) :
        LET row == binary_party[1][r]
            enc == encode_value(records[r][c], schema[c]).bits
        IN  /\ row.column_bit_lengths[c] = Len(enc)
            /\ \A i \in 0..(Len(enc) - 1) :
                  LET j == row.column_bit_offsets[c] + i
                  IN  /\ \A q \in Parties : /\ C30_HasBit(binary_party[q][r].bitstring_a, j)
                                            /\ C30_HasBit(binary_party[q][r].bitstring_b, j)
                      /\ C30_RowBitA(r, j) = enc[i + 1]
                      /\ C30_RowBitB(r, j) = enc[i + 1]

====
